---- MODULE Spec2Model ----
(***************************************************************************)
(* gogchat: the paginated list commands (spaces, messages, members,        *)
(* events, emoji, reactions) and the HTTP envelope client (Client.do,      *)
(* Client.Download, parseAPIErrorFromBody).                                *)
(*                                                                         *)
(* The specifications share the variables:                                 *)
(*   Spec         one invocation of a list command against a server that   *)
(*                answers every list call with a failure, an undecodable   *)
(*                body or a page, and that may be cancelled;               *)
(*   SpecClient   one invocation of a Client method (Get, Post, Patch,     *)
(*                Put, Delete, Upload, Download) against a transport that  *)
(*                fails or answers with a status and a body, followed for  *)
(*                Download by the media download command and for Upload by *)
(*                the media upload command;                                *)
(*   SpecURL      the query parameter helpers and Client.buildURL;         *)
(*   SpecTruncate output.Truncate;                                         *)
(*   SpecTable    output.Table: AddRow and Render;                         *)
(*   SpecDelete   one invocation of a delete / remove command and its      *)
(*                confirmation prompt;                                     *)
(*   SpecUpdate   one invocation of spaces update or notifications update; *)
(*   SpecLogin    auth.Login with its callback server (SpecLoginFair: the  *)
(*                same under a fair scheduler);                            *)
(*   SpecStore    the token store: SaveToken, LoadToken, DeleteToken,      *)
(*                TokenExists.                                             *)
(***************************************************************************)
EXTENDS Integers, Sequences, FiniteSets, TLC

VARIABLES
    \* ---- a list command invocation
    cmd,        \* which list command runs
    all,        \* --all
    json,       \* formatter.IsJSON()
    quiet,      \* formatter.Quiet
    flagToken,  \* --page-token
    pc,         \* "off" | "loop" (about to call) | "wait" (call in flight) | "done"
    pageToken,  \* the loop's pageToken variable
    allItems,   \* allSpaces / allMessages / allMemberships / ...
    sent,       \* page token of every list call issued, in order
    resps,      \* result of every list call that returned, in order
    out,        \* what was written to stdout, in order
    ret,        \* the value RunE returned
    cancelledAt,\* 0, or k when the context was cancelled before the k-th answer
    \* ---- a client invocation
    verb,       \* the Client method that was called
    marshalOK,  \* whether json.Marshal can encode the request body
    cop,        \* "off" | "do" | "download"
    verbose,    \* Client.Verbose
    reqOK,      \* whether http.NewRequestWithContext can build the request
    cpc,        \* "off" | "start" | "sent" | "done"
    trips,      \* transport round trips performed (HTTPClient.Do calls)
    wire,       \* what the transport produced for the round trip
    cres,       \* the (body, error) pair the client returned
    closed,     \* how many times resp.Body.Close ran
    logs,       \* lines written to the log stream
    mret,       \* what the media download command returned and printed
    \* ---- the query parameter helpers
    qgiven,     \* the value each helper call was given, per key
    qparams,    \* the url.Values under construction
    qurl,       \* what buildURL returned
    \* ---- output.Truncate
    ts,         \* the argument s
    tmax,       \* the argument maxLen
    tout,       \* what Truncate returned
    \* ---- output.Table
    headers,    \* Table.Headers
    rows,       \* Table.Rows
    rendered,   \* what Render returned
    \* ---- a delete / remove command invocation
    dcmd,       \* which delete command runs
    force,      \* --force
    stdin,      \* the bytes waiting on standard input
    dpc,        \* "off" | "start" | "called" (DELETE in flight) | "done"
    answer,     \* the handler's answer variable and the read's error
    dreqs,      \* the DELETE requests issued, in order
    dret,       \* what RunE returned and printed
    \* ---- an update command invocation
    ucmd,       \* which update command runs
    uflags,     \* per field flag: whether it was given, and its value
    updateMask, \* --update-mask
    upc,        \* "off" | "start" | "called" (PATCH in flight) | "done"
    patches,    \* the update mask of every PATCH request issued, in order
    uret,       \* what RunE returned
    \* ---- auth.Login
    lpc,        \* where the goroutine that called Login is
    listening,  \* whether the listener on localhost:8085 accepts connections
    handlers,   \* per callback request: its query and where its handler is
    resultCh,   \* the buffered result channel
    res,        \* the result Login received
    exchanges,  \* the codes handed to cfg.Exchange, in order
    lret,       \* what Login returned
    \* ---- the token store
    file,       \* what is at the token path
    lastSaved,  \* the token SaveToken wrote, while the file is as it wrote it
    sret        \* the last store operation, what it returned, and the file it found

listVars == <<cmd, all, json, quiet, flagToken, pc, pageToken, allItems,
              sent, resps, out, ret, cancelledAt>>
clientVars == <<verb, marshalOK, cop, verbose, reqOK, cpc, trips, wire, cres,
                closed, logs, mret>>
urlVars == <<qgiven, qparams, qurl>>
truncVars == <<ts, tmax, tout>>
tableVars == <<headers, rows, rendered>>
deleteVars == <<dcmd, force, stdin, dpc, answer, dreqs, dret>>
updateVars == <<ucmd, uflags, updateMask, upc, patches, uret>>
loginVars == <<lpc, listening, handlers, resultCh, res, exchanges, lret>>
storeVars == <<file, lastSaved, sret>>
moreVars == <<deleteVars, updateVars, loginVars, storeVars>>
auxVars == <<urlVars, truncVars, tableVars, moreVars>>
vars == <<listVars, clientVars, auxVars>>

----------------------------------------------------------------------------
(* Bounds and input sets of the list commands *)

\* The server hands out an empty nextPageToken at the latest on this call.
MaxPages == 3

Commands == {"spaces", "messages", "members", "events", "emoji", "reactions"}

\* The five commands that share one loop shape; members has its own.
LoopCommands == Commands \ {"members"}

NoToken == ""
Tokens == {"t1", "t2"}

\* An item that is JSON but not a JSON object: json.Unmarshal into the row
\* type fails on it.
BadItem == 0

\* The item lists a page may carry.
PageContents == {<< >>, <<1>>, <<2, 1>>, <<1, BadItem, 2>>}

\* Results of one svc.List call.
FailResp(e) == [kind |-> "fail", err |-> e, items |-> << >>, token |-> NoToken]
MalformedResp == [kind |-> "malformed", err |-> "", items |-> << >>, token |-> NoToken]
PageResp(is, t) == [kind |-> "page", err |-> "", items |-> is, token |-> t]

CallErrors == {"transport", "api"}

\* What the server may answer to call number n.
Responses(n) ==
    {FailResp(e) : e \in CallErrors}
    \cup {MalformedResp}
    \cup {PageResp(is, t) : is \in PageContents,
                            t \in IF n >= MaxPages THEN {NoToken}
                                  ELSE Tokens \cup {NoToken}}

\* Which context the command hands to svc.List: the invocation's
\* (cmd.Context()) or one that is never cancelled (context.Background()).
Ctx(c) == IF c \in {"spaces", "messages"} THEN "background" ELSE "command"

\* The request of a list call is built with the context it was handed
\* (http.NewRequestWithContext), so once that context is cancelled
\* HTTPClient.Do returns an error instead of a response.
Answers(n) ==
    IF Ctx(cmd) = "command" /\ cancelledAt > 0
    THEN {FailResp("canceled")}
    ELSE Responses(n)

\* Values of ret.
NoRet == [kind |-> "none", prefix |-> "", cause |-> ""]
OkRet == [kind |-> "ok", prefix |-> "", cause |-> ""]
ErrRet(p, c) == [kind |-> "err", prefix |-> p, cause |-> c]

\* Entries of out.
OutEntry(k, is, t) == [k |-> k, items |-> is, token |-> t]

----------------------------------------------------------------------------
(* Input sets of the client: what the transport may deliver *)

\* A body is bytes: leading white space, a core without surrounding white
\* space, trailing white space.  The core is text that is not JSON, or a JSON
\* document described by what its "error" member holds.
TextCore(t) ==
    [syntax |-> "text", text |-> t, codeKind |-> "absent", code |-> 0,
     message |-> "", status |-> "", details |-> << >>]
JsonCore(ck, c, m, st, ds) ==
    [syntax |-> "json", text |-> "", codeKind |-> ck, code |-> c,
     message |-> m, status |-> st, details |-> ds]
NilCore ==
    [syntax |-> "nil", text |-> "", codeKind |-> "absent", code |-> 0,
     message |-> "", status |-> "", details |-> << >>]

Detail(r) == [type |-> "ErrorInfo", reason |-> r]

DetailLists ==
    {<< >>,
     <<Detail("")>>,
     <<Detail(""), Detail("ACCESS_DENIED")>>,
     <<Detail("ACCESS_DENIED"), Detail("RATE_LIMIT")>>}

Cores ==
    {TextCore(""), TextCore("internal failure")}
    \cup {JsonCore("absent", 0, "", "", << >>)}
    \cup {JsonCore("str", 0, "Forbidden", "PERMISSION_DENIED", << >>)}
    \cup {JsonCore("num", c, "Forbidden", "PERMISSION_DENIED", ds) :
            c \in {0, 403, 404}, ds \in DetailLists}

MkBody(l, c, t) == [lead |-> l, core |-> c, trail |-> t]
NilBody == MkBody(<< >>, NilCore, << >>)

\* A body of white space only is written with the white space in front.
Bodies ==
    {MkBody(l, c, t) : l \in {<< >>, <<" ">>}, c \in Cores,
                       t \in {<< >>, <<"\n">>}}
    \ {MkBody(l, TextCore(""), <<"\n">>) : l \in {<< >>, <<" ">>}}

Statuses == {101, 200, 299, 300, 304, 400, 403, 500}

NoWire == [kind |-> "none", status |-> 0, body |-> NilBody, readOK |-> FALSE]
WireFail == [kind |-> "fail", status |-> 0, body |-> NilBody, readOK |-> FALSE]
WireResp(st, b, rd) == [kind |-> "resp", status |-> st, body |-> b, readOK |-> rd]

Wires ==
    {WireFail}
    \cup {WireResp(st, b, rd) : st \in Statuses, b \in Bodies, rd \in BOOLEAN}

\* Error values.
NoError ==
    [kind |-> "none", text |-> "", code |-> 0, status |-> "",
     message |-> NilBody, details |-> << >>, raw |-> NilBody]
PlainError(t) == [NoError EXCEPT !.kind = "plain", !.text = t]
APIError(c, m, st, ds, rb) ==
    [kind |-> "api", text |-> "", code |-> c, status |-> st,
     message |-> m, details |-> ds, raw |-> rb]

\* What the client returned: the body (do) or the open stream (Download),
\* and the error.
NoResult == [returned |-> FALSE, hasBody |-> FALSE, body |-> NilBody, err |-> NoError]
Result(hb, b, e) == [returned |-> TRUE, hasBody |-> hb, body |-> b, err |-> e]

\* The exported methods of Client; Post, Patch and Put marshal a body first.
Verbs == {"get", "post", "patch", "put", "delete", "upload", "download"}
BodyVerbs == {"post", "patch", "put"}

\* What the media download command returned and printed.
NoMediaRet == [kind |-> "none", prefix |-> "", printed |-> "none"]
MediaRet(k, p, pr) == [kind |-> k, prefix |-> p, printed |-> pr]

----------------------------------------------------------------------------
(* Values of the query parameter helpers, Truncate and Table when idle *)

QueryKeys == {"filter", "pageSize", "pageToken", "showDeleted"}
NotGiven == [t |-> "none", s |-> "", n |-> 0, b |-> FALSE]
NoURL == [built |-> FALSE, text |-> << >>]
NotTruncated == [done |-> FALSE, s |-> << >>]
NotRendered == [done |-> FALSE, panic |-> FALSE, text |-> << >>]

UrlOff ==
    /\ qgiven = [k \in QueryKeys |-> NotGiven]
    /\ qparams = {}
    /\ qurl = NoURL

TruncOff ==
    /\ ts = << >>
    /\ tmax = 0
    /\ tout = NotTruncated

TableOff ==
    /\ headers = << >>
    /\ rows = << >>
    /\ rendered = NotRendered

\* Values of the delete and update commands, Login and the token store when
\* idle.
NoAnswer == [text |-> << >>, err |-> "none"]
NoDeleteRet == [kind |-> "none", printed |-> "none"]
NoUpdateRet == [kind |-> "none", prefix |-> ""]
NoResultYet == [code |-> "", err |-> "none"]
NoLoginRet == [kind |-> "none", err |-> "", token |-> ""]
NoData == [kind |-> "empty", members |-> << >>]
Absent == [exists |-> FALSE, data |-> NoData]
ZeroToken == [AccessToken |-> "", TokenType |-> "", RefreshToken |-> "",
              Expiry |-> "zero", raw |-> "nil"]
NothingSaved == [has |-> FALSE, token |-> ZeroToken]
NoStoreRet == [op |-> "none", err |-> "none", token |-> ZeroToken,
               exists |-> FALSE, before |-> Absent]

DeleteOff ==
    /\ dcmd = "off"
    /\ force = FALSE
    /\ stdin = << >>
    /\ dpc = "off"
    /\ answer = NoAnswer
    /\ dreqs = << >>
    /\ dret = NoDeleteRet

UpdateOff ==
    /\ ucmd = "off"
    /\ uflags = << >>
    /\ updateMask = << >>
    /\ upc = "off"
    /\ patches = << >>
    /\ uret = NoUpdateRet

LoginOff ==
    /\ lpc = "off"
    /\ listening = FALSE
    /\ handlers = << >>
    /\ resultCh = << >>
    /\ res = NoResultYet
    /\ exchanges = << >>
    /\ lret = NoLoginRet

StoreOff ==
    /\ file = Absent
    /\ lastSaved = NothingSaved
    /\ sret = NoStoreRet

MoreOff == DeleteOff /\ UpdateOff /\ LoginOff /\ StoreOff

AuxOff == UrlOff /\ TruncOff /\ TableOff /\ MoreOff

----------------------------------------------------------------------------
(* The client *)

\* http.StatusText on the status codes of the model.
StatusText(c) ==
    CASE c = 101 -> "Switching Protocols"
      [] c = 200 -> "OK"
      [] c = 300 -> "Multiple Choices"
      [] c = 304 -> "Not Modified"
      [] c = 400 -> "Bad Request"
      [] c = 403 -> "Forbidden"
      [] c = 500 -> "Internal Server Error"
      [] OTHER -> ""

\* strings.TrimSpace(string(body))
TrimSpace(b) == MkBody(<< >>, b.core, << >>)

\* A message that is text given in the envelope.
EnvText(t) == MkBody(<< >>, TextCore(t), << >>)

\* json.Unmarshal(body, &envelope): white space around the document is
\* skipped; absent members leave the zero value; a code that is not a number
\* is a type error.
Unmarshal(b) ==
    IF b.core.syntax = "json" /\ b.core.codeKind # "str"
    THEN [ok |-> TRUE,
          code |-> IF b.core.codeKind = "num" THEN b.core.code ELSE 0,
          message |-> b.core.message, status |-> b.core.status,
          details |-> b.core.details]
    ELSE [ok |-> FALSE, code |-> 0, message |-> "", status |-> "",
          details |-> << >>]

\* An APIError that reports the transport status as its code.
ParseAPIErrorFromBodyTransportCode(statusCode, b) ==
    LET env == Unmarshal(b)
    IN IF env.ok /\ env.code # 0
       THEN APIError(statusCode, EnvText(env.message), env.status, env.details, b)
       ELSE IF statusCode >= 400
       THEN APIError(statusCode, TrimSpace(b), StatusText(statusCode), << >>, b)
       ELSE NoError

\* A generic APIError whose message is the untrimmed body.
ParseAPIErrorFromBodyNoTrim(statusCode, b) ==
    LET env == Unmarshal(b)
    IN IF env.ok /\ env.code # 0
       THEN APIError(env.code, EnvText(env.message), env.status, env.details, b)
       ELSE IF statusCode >= 400
       THEN APIError(statusCode, b, StatusText(statusCode), << >>, b)
       ELSE NoError

\* parseAPIErrorFromBody; NoError stands for the nil it returns.
ParseAPIErrorFromBody(statusCode, b) ==
    LET env == Unmarshal(b)
    IN IF env.ok /\ env.code # 0
       THEN APIError(env.code, EnvText(env.message), env.status, env.details, b)
       ELSE IF statusCode >= 400
       THEN APIError(statusCode, TrimSpace(b), StatusText(statusCode), << >>, b)
       ELSE NoError

\* parseAPIError: reads the body first.
ParseAPIError(w) ==
    IF ~w.readOK THEN NoError ELSE ParseAPIErrorFromBody(w.status, w.body)

\* APIError.ErrorReason
RECURSIVE FirstReason(_)
FirstReason(ds) ==
    IF ds = << >> THEN ""
    ELSE IF Head(ds).reason # "" THEN Head(ds).reason
    ELSE FirstReason(Tail(ds))
ErrorReason(e) == FirstReason(e.details)

\* A success range that takes 300 in.
StatusOKInclusive(c) == c >= 200 /\ c <= 300

\* The status is in [200,300).
StatusOK(c) == ~(c < 200 \/ c >= 300)

LogIf(v, ls) == IF v THEN ls ELSE << >>

ListOff ==
    /\ cmd = "spaces"
    /\ all = FALSE
    /\ json = FALSE
    /\ quiet = FALSE
    /\ flagToken = NoToken
    /\ pc = "off"
    /\ pageToken = NoToken
    /\ allItems = << >>
    /\ sent = << >>
    /\ resps = << >>
    /\ out = << >>
    /\ ret = NoRet
    /\ cancelledAt = 0

InitClient ==
    /\ ListOff
    /\ AuxOff
    /\ verb \in Verbs
    /\ marshalOK \in (IF verb \in BodyVerbs THEN BOOLEAN ELSE {TRUE})
    /\ cop = (IF verb = "download" THEN "download" ELSE "do")
    /\ verbose \in BOOLEAN
    /\ reqOK \in BOOLEAN
    /\ cpc = "start"
    /\ trips = 0
    /\ wire = NoWire
    /\ cres = NoResult
    /\ closed = 0
    /\ logs = << >>
    /\ mret = NoMediaRet

\* Post, Patch and Put: json.Marshal fails and do is never called.
MarshalFailed ==
    /\ cpc = "start"
    /\ verb \in BodyVerbs
    /\ ~marshalOK
    /\ cres' = Result(FALSE, NilBody, PlainError("marshaling request body"))
    /\ cpc' = "done"
    /\ UNCHANGED <<verb, marshalOK, cop, verbose, reqOK, trips, wire, closed,
                   logs, mret>>
    /\ UNCHANGED <<listVars, auxVars>>

\* Client.do and Client.Download up to HTTPClient.Do.
SendRequest(op) ==
    /\ cpc = "start"
    /\ cop = op
    /\ verb \in BodyVerbs => marshalOK
    /\ IF ~reqOK
       THEN /\ cres' = Result(FALSE, NilBody, PlainError("creating request"))
            /\ cpc' = "done"
            /\ UNCHANGED <<trips, logs>>
       ELSE /\ logs' = logs \o LogIf(verbose, <<"request">>)
            /\ trips' = trips + 1
            /\ cpc' = "sent"
            /\ UNCHANGED cres
    /\ UNCHANGED <<verb, marshalOK, cop, verbose, reqOK, wire, closed, mret>>
    /\ UNCHANGED <<listVars, auxVars>>

DoSend == SendRequest("do")

DownloadSend == SendRequest("download")

\* A transport failure reported as an APIError without a status.
TransportErrorAsAPI == APIError(0, NilBody, "", << >>, NilBody)

\* The error of both methods when HTTPClient.Do yields no response.
TransportError == PlainError("executing request")

\* What a method does once HTTPClient.Do returned: the result it returns,
\* the lines it logs and how often it closes the response body.
Outcome(r, ls, n) == [res |-> r, logs |-> ls, closes |-> n]

\* Verbose logging that consumes the body it prints.
DoOutcomeVerboseDrains(v, w) ==
    IF w.kind = "fail"
    THEN Outcome(Result(FALSE, NilBody, TransportError), << >>, 0)
    ELSE IF ~w.readOK
    THEN Outcome(Result(FALSE, NilBody, PlainError("reading response body")),
                 << >>, 1)
    ELSE IF ~StatusOK(w.status)
    THEN LET apiErr == ParseAPIErrorFromBody(w.status,
                                             IF v THEN NilBody ELSE w.body)
         IN Outcome(Result(FALSE, NilBody,
                           IF apiErr # NoError THEN apiErr
                           ELSE PlainError("unexpected status")),
                    LogIf(v, <<"response", "body">>), 1)
    ELSE Outcome(Result(TRUE, w.body, NoError), LogIf(v, <<"response">>), 1)

\* Client.do from the return of HTTPClient.Do, with Verbose = v.
DoOutcome(v, w) ==
    IF w.kind = "fail"
    THEN Outcome(Result(FALSE, NilBody, TransportError), << >>, 0)
    ELSE IF ~w.readOK
    THEN Outcome(Result(FALSE, NilBody, PlainError("reading response body")),
                 << >>, 1)
    ELSE IF ~StatusOK(w.status)
    THEN LET apiErr == ParseAPIErrorFromBody(w.status, w.body)
         IN Outcome(Result(FALSE, NilBody,
                           IF apiErr # NoError THEN apiErr
                           ELSE PlainError("unexpected status")),
                    LogIf(v, <<"response", "body">>), 1)
    ELSE Outcome(Result(TRUE, w.body, NoError), LogIf(v, <<"response">>), 1)

\* A second round trip after a transport failure.
DoFinishRetries(w) ==
    /\ wire' = w
    /\ LET o == DoOutcome(verbose, w)
       IN /\ cres' = o.res
          /\ logs' = logs \o o.logs
          /\ closed' = closed + o.closes
          /\ cpc' = IF w.kind = "fail" /\ trips < 2 THEN "start" ELSE "done"

DoFinish(w) ==
    /\ wire' = w
    /\ cpc' = "done"
    /\ LET o == DoOutcome(verbose, w)
       IN /\ cres' = o.res
          /\ logs' = logs \o o.logs
          /\ closed' = closed + o.closes

DoReceive ==
    /\ cpc = "sent"
    /\ cop = "do"
    /\ \E w \in Wires : DoFinish(w)
    /\ UNCHANGED <<verb, marshalOK, cop, verbose, reqOK, trips, mret>>
    /\ UNCHANGED <<listVars, auxVars>>

\* Client.Download from the return of HTTPClient.Do, with Verbose = v.
DownloadOutcome(v, w) ==
    IF w.kind = "fail"
    THEN Outcome(Result(FALSE, NilBody, TransportError), << >>, 0)
    ELSE IF ~StatusOK(w.status)
    THEN LET apiErr == ParseAPIError(w)
         IN Outcome(Result(FALSE, NilBody,
                           IF apiErr # NoError THEN apiErr
                           ELSE PlainError("unexpected status")),
                    LogIf(v, <<"response">>), 1)
    ELSE Outcome(Result(TRUE, w.body, NoError), LogIf(v, <<"response">>), 0)

DownloadFinish(w) ==
    /\ wire' = w
    /\ cpc' = "done"
    /\ LET o == DownloadOutcome(verbose, w)
       IN /\ cres' = o.res
          /\ logs' = logs \o o.logs
          /\ closed' = closed + o.closes

DownloadReceive ==
    /\ cpc = "sent"
    /\ cop = "download"
    /\ \E w \in Wires : DownloadFinish(w)
    /\ UNCHANGED <<verb, marshalOK, cop, verbose, reqOK, trips, mret>>
    /\ UNCHANGED <<listVars, auxVars>>

\* The output file is created before the stream's release is scheduled.
MediaDownloadLateDefer(createOK, copyOK, j, q) ==
    /\ cop = "download"
    /\ cpc = "done"
    /\ mret = NoMediaRet
    /\ IF cres.err # NoError
       THEN /\ mret' = MediaRet("err", "downloading media", "none")
            /\ UNCHANGED closed
       ELSE IF ~createOK
       THEN /\ mret' = MediaRet("err", "creating output file", "none")
            /\ UNCHANGED closed
       ELSE /\ closed' = closed + 1
            /\ mret' = IF ~copyOK
                       THEN MediaRet("err", "writing to file", "none")
                       ELSE IF j THEN MediaRet("ok", "", "json")
                       ELSE MediaRet("ok", "", IF q THEN "none" ELSE "success")
    /\ UNCHANGED <<verb, marshalOK, cop, verbose, reqOK, cpc, trips, wire, cres,
                   logs>>
    /\ UNCHANGED <<listVars, auxVars>>

\* The media download command from the return of svc.Download, which hands
\* on what Client.Download returned: os.Create succeeds or not, io.Copy
\* succeeds or not, the formatter is in JSON mode (j) or quiet (q).
MediaDownload(createOK, copyOK, j, q) ==
    /\ cop = "download"
    /\ cpc = "done"
    /\ mret = NoMediaRet
    /\ IF cres.err # NoError
       THEN /\ mret' = MediaRet("err", "downloading media", "none")
            /\ UNCHANGED closed
       ELSE /\ closed' = closed + 1
            /\ mret' = IF ~createOK
                       THEN MediaRet("err", "creating output file", "none")
                       ELSE IF ~copyOK
                       THEN MediaRet("err", "writing to file", "none")
                       ELSE IF j THEN MediaRet("ok", "", "json")
                       ELSE MediaRet("ok", "", IF q THEN "none" ELSE "success")
    /\ UNCHANGED <<verb, marshalOK, cop, verbose, reqOK, cpc, trips, wire, cres,
                   logs>>
    /\ UNCHANGED <<listVars, auxVars>>

MediaDownloadReturn ==
    \E createOK, copyOK, j, q \in BOOLEAN : MediaDownload(createOK, copyOK, j, q)

\* json.Unmarshal(raw, &result) in the media upload command: the body has to
\* be a JSON object; members the struct does not name are ignored.
UnmarshalUploadResult(b) == b.core.syntax = "json"

\* The media upload command from the return of svc.Upload, which hands on
\* what Client.Upload returned; the formatter is in JSON mode (j) or quiet
\* (q).
MediaUpload(j, q) ==
    /\ verb = "upload"
    /\ cpc = "done"
    /\ mret = NoMediaRet
    /\ mret' = IF cres.err # NoError
               THEN MediaRet("err", "uploading media", "none")
               ELSE IF j THEN MediaRet("ok", "", "json")
               ELSE IF ~UnmarshalUploadResult(cres.body)
               THEN MediaRet("ok", "", IF q THEN "raw" ELSE "success+raw")
               ELSE MediaRet("ok", "", IF q THEN "fields" ELSE "success+fields")
    /\ UNCHANGED <<verb, marshalOK, cop, verbose, reqOK, cpc, trips, wire, cres,
                   closed, logs>>
    /\ UNCHANGED <<listVars, auxVars>>

MediaUploadReturn == \E j, q \in BOOLEAN : MediaUpload(j, q)

NextClient ==
    \/ MediaUploadReturn
    \/ MediaDownloadReturn
    \/ MarshalFailed
    \/ DoSend
    \/ DoReceive
    \/ DownloadSend
    \/ DownloadReceive

SpecClient == InitClient /\ [][NextClient]_vars

----------------------------------------------------------------------------
(* The list commands *)

Decodable(i) == i # BadItem

RECURSIVE Concat(_)
Concat(ss) == IF ss = << >> THEN << >> ELSE Head(ss) \o Concat(Tail(ss))

\* The page token of the first call.
InitialToken(c, a, ft) == IF c = "members" /\ a THEN NoToken ELSE ft

\* A page prepended instead of appended.
AccumulatePrepends(acc, is) == is \o acc

\* allSpaces = append(allSpaces, resp.Spaces...)
Accumulate(acc, is) == acc \o is

\* The break condition without its "!all".
LoopContinuesIgnoresAll(a, t) == t # NoToken

\* The break condition without its test of the token.
LoopContinuesIgnoresToken(a, t) == a

\* A loop that gives up after two pages.
LoopContinuesCapped(a, t) == a /\ t # NoToken /\ Len(sent) < 2

\* The loop goes round again.
LoopContinues(a, t) == a /\ t # NoToken

\* The next call issued with the token of the previous call.
ThreadTokenStale(old, t) == old

\* The token the next call is issued with.
ThreadToken(old, t) == t

\* Formatter.PrintMessage
PrintMessage(q, e) == IF q THEN << >> ELSE <<e>>

\* Formatter.PrintRaw of a call's raw result.
PrintRaw(r) ==
    IF r.kind = "page" THEN <<OutEntry("raw", r.items, r.token)>>
    ELSE <<OutEntry("rawtext", << >>, NoToken)>>

\* The hint about a next page.
ShowHint(a, t) == ~a /\ t # NoToken

\* What the five loop commands write once the loop is left.
RenderList(c, j, q, a, is, t) ==
    IF j THEN <<OutEntry("json", is, NoToken)>>
    ELSE IF is = << >> THEN PrintMessage(q, OutEntry("none", << >>, NoToken))
    ELSE IF c = "messages"
         THEN PrintMessage(q, OutEntry("table", SelectSeq(is, Decodable), NoToken))
    ELSE <<OutEntry("table", SelectSeq(is, Decodable), NoToken)>>
         \o (IF ShowHint(a, t)
             THEN PrintMessage(q, OutEntry("hint", << >>, t)) ELSE << >>)

\* The document membersListAll builds for the printer.
MarshalCombined(is, t) == PageResp(is, NoToken)

\* printMembersList: <<written, returned>>.
PrintMembersList(q, doc) ==
    IF doc.kind # "page" \/ \E i \in 1..Len(doc.items) : ~Decodable(doc.items[i])
    THEN << << >>, ErrRet("parsing memberships", "decode") >>
    ELSE IF doc.items = << >>
    THEN << PrintMessage(q, OutEntry("none", << >>, NoToken)), OkRet >>
    ELSE << <<OutEntry("table", doc.items, NoToken)>>
            \o (IF doc.token # NoToken
                THEN PrintMessage(q, OutEntry("hint", << >>, doc.token))
                ELSE << >>),
            OkRet >>

InitList ==
    /\ cmd \in Commands
    /\ all \in BOOLEAN
    /\ json \in BOOLEAN
    /\ quiet \in BOOLEAN
    /\ flagToken \in {NoToken, "t1"}
    /\ pc = "loop"
    /\ pageToken = InitialToken(cmd, all, flagToken)
    /\ allItems = << >>
    /\ sent = << >>
    /\ resps = << >>
    /\ out = << >>
    /\ ret = NoRet
    /\ cancelledAt = 0

ClientOff ==
    /\ verb = "off"
    /\ marshalOK = TRUE
    /\ cop = "off"
    /\ verbose = FALSE
    /\ reqOK = TRUE
    /\ cpc = "off"
    /\ trips = 0
    /\ wire = NoWire
    /\ cres = NoResult
    /\ closed = 0
    /\ logs = << >>
    /\ mret = NoMediaRet

\* svc.List(ctx, ..., pageToken) is called.
IssueCall ==
    /\ pc = "loop"
    /\ Len(sent) < MaxPages
    /\ sent' = Append(sent, pageToken)
    /\ pc' = "wait"
    /\ UNCHANGED <<cmd, all, json, quiet, flagToken, pageToken, allItems,
                   resps, out, ret, cancelledAt>>
    /\ UNCHANGED <<clientVars, auxVars>>

\* A failure that still prints what was accumulated so far.
CallFailedPartial(r, p) ==
    /\ r.kind = "fail"
    /\ ret' = ErrRet(p, r.err)
    /\ pc' = "done"
    /\ out' = out \o <<OutEntry("json", allItems, NoToken)>>
    /\ UNCHANGED <<pageToken, allItems>>

\* A failure reported without the error of the call that failed.
CallFailedLosesCause(r, p) ==
    /\ r.kind = "fail"
    /\ ret' = ErrRet(p, "")
    /\ pc' = "done"
    /\ UNCHANGED <<pageToken, allItems, out>>

\* The call failed: the command returns the wrapped error.
CallFailed(r, p) ==
    /\ r.kind = "fail"
    /\ ret' = ErrRet(p, r.err)
    /\ pc' = "done"
    /\ UNCHANGED <<pageToken, allItems, out>>

\* The rest of a loop command's handler from the moment svc.List returns r,
\* up to the next call or the return.
LoopHandle(r) ==
    \/ CallFailed(r, "listing")
    \/ /\ r.kind # "fail"
       /\ json /\ ~all
       /\ out' = out \o PrintRaw(r)
       /\ ret' = OkRet
       /\ pc' = "done"
       /\ UNCHANGED <<pageToken, allItems>>
    \/ /\ r.kind = "malformed"
       /\ ~(json /\ ~all)
       /\ ret' = ErrRet("parsing response", "decode")
       /\ pc' = "done"
       /\ UNCHANGED <<pageToken, allItems, out>>
    \/ /\ r.kind = "page"
       /\ ~(json /\ ~all)
       /\ allItems' = Accumulate(allItems, r.items)
       /\ IF LoopContinues(all, r.token)
          THEN /\ pageToken' = ThreadToken(pageToken, r.token)
               /\ pc' = "loop"
               /\ UNCHANGED <<out, ret>>
          ELSE /\ pageToken' = r.token
               /\ out' = out \o RenderList(cmd, json, quiet, all, allItems', r.token)
               /\ ret' = OkRet
               /\ pc' = "done"

ListReceive ==
    /\ pc = "wait"
    /\ cmd \in LoopCommands
    /\ \E r \in Answers(Len(sent)) :
          /\ resps' = Append(resps, r)
          /\ LoopHandle(r)
    /\ UNCHANGED <<cmd, all, json, quiet, flagToken, sent, cancelledAt>>
    /\ UNCHANGED <<clientVars, auxVars>>

\* membersListAll, from the moment svc.List returns r.
MembersAllHandle(r) ==
    \/ CallFailed(r, "listing")
    \/ /\ r.kind = "malformed"
       /\ ret' = ErrRet("parsing response", "decode")
       /\ pc' = "done"
       /\ UNCHANGED <<pageToken, allItems, out>>
    \/ /\ r.kind = "page"
       /\ allItems' = Accumulate(allItems, r.items)
       /\ IF LoopContinues(TRUE, r.token)
          THEN /\ pageToken' = ThreadToken(pageToken, r.token)
               /\ pc' = "loop"
               /\ UNCHANGED <<out, ret>>
          ELSE /\ UNCHANGED pageToken
               /\ pc' = "done"
               /\ IF json
                  THEN /\ out' = out \o <<OutEntry("json", allItems', NoToken)>>
                       /\ ret' = OkRet
                  ELSE LET p == PrintMembersList(quiet,
                                    MarshalCombined(allItems', r.token))
                       IN /\ out' = out \o p[1]
                          /\ ret' = p[2]

MembersAllReceive ==
    /\ pc = "wait"
    /\ cmd = "members" /\ all
    /\ \E r \in Answers(Len(sent)) :
          /\ resps' = Append(resps, r)
          /\ MembersAllHandle(r)
    /\ UNCHANGED <<cmd, all, json, quiet, flagToken, sent, cancelledAt>>
    /\ UNCHANGED <<clientVars, auxVars>>

\* members list without --all, from the moment svc.List returns r.
MembersSingleHandle(r) ==
    \/ CallFailed(r, "listing")
    \/ /\ r.kind # "fail"
       /\ pc' = "done"
       /\ UNCHANGED <<pageToken, allItems>>
       /\ IF json
          THEN /\ out' = out \o PrintRaw(r)
               /\ ret' = OkRet
          ELSE LET p == PrintMembersList(quiet, r)
               IN /\ out' = out \o p[1]
                  /\ ret' = p[2]

MembersSingleReceive ==
    /\ pc = "wait"
    /\ cmd = "members" /\ ~all
    /\ \E r \in Answers(Len(sent)) :
          /\ resps' = Append(resps, r)
          /\ MembersSingleHandle(r)
    /\ UNCHANGED <<cmd, all, json, quiet, flagToken, sent, cancelledAt>>
    /\ UNCHANGED <<clientVars, auxVars>>

\* The invocation's context is cancelled while the command runs.
Cancel ==
    /\ pc \in {"loop", "wait"}
    /\ cancelledAt = 0
    /\ cancelledAt' = Len(resps) + 1
    /\ UNCHANGED <<cmd, all, json, quiet, flagToken, pc, pageToken, allItems,
                   sent, resps, out, ret>>
    /\ UNCHANGED <<clientVars, auxVars>>

Init == InitList /\ ClientOff /\ AuxOff

Next ==
    \/ Cancel
    \/ IssueCall
    \/ ListReceive
    \/ MembersAllReceive
    \/ MembersSingleReceive

Spec == Init /\ [][Next]_vars

----------------------------------------------------------------------------
(* Properties of the list commands, checked under Spec *)

Pages(rs) == [i \in 1..Len(rs) |-> rs[i].items]
AllPages(rs) == \A i \in 1..Len(rs) : rs[i].kind = "page"
HasMore(r) == r.kind = "page" /\ r.token # NoToken
Last(s) == s[Len(s)]
Written(k) == \E i \in 1..Len(out) : out[i].k = k

\* C1: in fetch-all mode, while every call returns a page, the accumulated
\* items are the concatenation of the pages' items in call order; when the
\* pages P1..Pn end with the first empty token the command has issued exactly
\* n calls, is finished, and in JSON mode writes exactly that concatenation.
C1_FetchAllConcatenates ==
    (all /\ AllPages(resps)) =>
        /\ allItems = Concat(Pages(resps))
        /\ \A i \in 1..Len(resps) - 1 : resps[i].token # NoToken
        /\ (resps # << >> /\ Last(resps).token = NoToken) =>
              /\ pc = "done"
              /\ Len(sent) = Len(resps)
              /\ json => (ret = OkRet /\
                          out = <<OutEntry("json", Concat(Pages(resps)), NoToken)>>)

C1_Witness ==
    /\ all /\ json /\ pc = "done" /\ AllPages(resps)
    /\ Len(resps) = 3 /\ Len(sent) = 3
    /\ resps[1].items = <<2, 1>> /\ resps[2].items = <<1>>
    /\ resps[3].items = <<1, BadItem, 2>>
    /\ allItems = <<2, 1, 1, 1, BadItem, 2>>

\* C2: without --all a list command never issues a second list call, and it
\* has issued exactly one when it returns, whatever the call returned and in
\* JSON as in human mode.
C2_SinglePageOneCall ==
    ~all => /\ Len(sent) <= 1
            /\ pc = "done" => (Len(sent) = 1 /\ Len(resps) = 1)

C2_Witness ==
    /\ ~all /\ ~json /\ pc = "done" /\ ret = OkRet
    /\ Len(sent) = 1 /\ Len(resps) = 1 /\ HasMore(resps[1])

\* C3: in fetch-all mode a failed list call is the last call: the command is
\* finished, has returned that call's failure, has issued no further call and
\* has written nothing, whatever the earlier pages delivered.
C3_FailureAborts ==
    all => \A k \in 1..Len(resps) :
              resps[k].kind = "fail" =>
                  /\ k = Len(resps) /\ Len(sent) = k
                  /\ pc = "done"
                  /\ ret = ErrRet("listing", resps[k].err)
                  /\ out = << >>

C3_Witness ==
    /\ all /\ Len(resps) = 3 /\ resps[3].kind = "fail"
    /\ allItems # << >> /\ pc = "done" /\ out = << >>

\* C4: in fetch-all mode a further call is issued (or about to be issued) after
\* response i if and only if response i is a decoded page with a non-empty
\* token; after the first response with an empty token, the first call's
\* included, the command is finished.
C4_StopsAtEmptyToken ==
    all =>
        /\ \A i \in 1..Len(resps) :
              HasMore(resps[i]) <=>
                  (Len(sent) > i \/ (pc = "loop" /\ Len(sent) = i))
        /\ (resps # << >> /\ ~HasMore(Last(resps))) =>
              (pc = "done" /\ Len(sent) = Len(resps))
        /\ pc = "loop" => Len(sent) < MaxPages

C4_Witness ==
    /\ all /\ pc = "done" /\ Len(sent) = 1 /\ Len(resps) = 1
    /\ resps[1].kind = "page" /\ resps[1].token = NoToken

\* C5: in fetch-all mode call n+1 carries the nextPageToken of response n,
\* response n has been received when call n+1 is issued, and at most one
\* call is in flight, exactly when the command waits.
C5_TokenThreadedSequential ==
    all =>
        /\ \A n \in 1..Len(sent) - 1 :
              n <= Len(resps) /\ sent[n + 1] = resps[n].token
        /\ Len(sent) - Len(resps) \in {0, 1}
        /\ (Len(sent) - Len(resps) = 1) <=> (pc = "wait")

C5_Witness ==
    /\ all /\ Len(sent) = 3 /\ Len(resps) = 2 /\ pc = "wait"
    /\ sent[2] = "t2" /\ sent[3] = "t1"

\* C6: when a fetch-all run returns success, the last response's token is
\* empty, the token the command holds for its output (pageToken; for members
\* the token of the combined document) is empty, and no next-page hint was
\* written; no hint is written in fetch-all mode at all.
C6_FetchAllEndsWithoutToken ==
    all =>
        /\ ~Written("hint")
        /\ (pc = "done" /\ ret = OkRet) =>
              /\ Last(resps).token = NoToken
              /\ cmd \in LoopCommands => pageToken = NoToken
              /\ cmd = "members" =>
                    MarshalCombined(allItems, Last(resps).token).token = NoToken

C6_Witness ==
    /\ all /\ ~json /\ ~quiet /\ pc = "done" /\ ret = OkRet
    /\ Len(resps) = 3 /\ Written("table")

\* C7: without --all, when the call returned a page with a non-empty
\* nextPageToken, the finished command has written that token: in JSON mode
\* with the raw response, in human mode in a hint naming it.
C7_SinglePageShowsToken ==
    (~all /\ pc = "done" /\ resps # << >> /\ HasMore(resps[1])) =>
        \E i \in 1..Len(out) :
            /\ out[i].token = resps[1].token
            /\ out[i].k = IF json THEN "raw" ELSE "hint"

----------------------------------------------------------------------------
(* Properties of the client, checked under SpecClient *)

Finished == cpc = "done"
GotResponse == wire.kind = "resp"
Non2xx == wire.status < 200 \/ wire.status >= 300

\* The body holds an error envelope with a numeric, non-zero code.
HasEnvelope ==
    /\ wire.body.core.syntax = "json"
    /\ wire.body.core.codeKind = "num"
    /\ wire.body.core.code # 0

ReasonIndexes(ds) == {i \in 1..Len(ds) : ds[i].reason # ""}
FirstNonEmptyReason(ds) ==
    IF ReasonIndexes(ds) = {} THEN ""
    ELSE ds[CHOOSE i \in ReasonIndexes(ds) :
                \A j \in ReasonIndexes(ds) : i <= j].reason

\* C8: for a response outside [200,300) whose body, once read, holds the
\* error envelope with a non-zero code, do and Download return an APIError
\* with the envelope's code, status, message and details, the unmodified body
\* as RawBody, and ErrorReason the first non-empty reason in detail order
\* (empty when there is none).
C8_EnvelopeBecomesAPIError ==
    (Finished /\ GotResponse /\ wire.readOK /\ Non2xx /\ HasEnvelope) =>
        /\ cres.err.kind = "api"
        /\ cres.err.code = wire.body.core.code
        /\ cres.err.status = wire.body.core.status
        /\ cres.err.message = EnvText(wire.body.core.message)
        /\ cres.err.details = wire.body.core.details
        /\ cres.err.raw = wire.body
        /\ ErrorReason(cres.err) = FirstNonEmptyReason(wire.body.core.details)

C8_Witness ==
    /\ Finished /\ cop = "do" /\ GotResponse /\ wire.readOK
    /\ wire.status = 500 /\ HasEnvelope /\ wire.body.core.code = 403
    /\ wire.body.lead = <<" ">>
    /\ wire.body.core.details = <<Detail(""), Detail("ACCESS_DENIED")>>
    /\ cres.err.kind = "api" /\ ErrorReason(cres.err) = "ACCESS_DENIED"

\* The generic APIError of a response: transport status, its reason phrase,
\* the trimmed body.
IsGenericAPIError(e) ==
    /\ e.kind = "api"
    /\ e.code = wire.status
    /\ e.status = StatusText(wire.status)
    /\ e.message = MkBody(<< >>, wire.body.core, << >>)

\* C9 as claimed: for every response outside [200,300) whose body, once read,
\* holds no envelope with a non-zero code, do and Download return the generic
\* APIError.
C9_GenericAPIErrorForEveryNon2xx ==
    (Finished /\ GotResponse /\ wire.readOK /\ Non2xx /\ ~HasEnvelope) =>
        IsGenericAPIError(cres.err)

\* C9 as the code has it: the generic APIError is built for a status of 400
\* and above; for a status below 400 outside [200,300) do and Download return
\* a plain "unexpected status" error that is no APIError.
C9_GenericAPIErrorFrom400 ==
    (Finished /\ GotResponse /\ wire.readOK /\ Non2xx /\ ~HasEnvelope) =>
        /\ wire.status >= 400 =>
              (IsGenericAPIError(cres.err) /\ cres.err.raw = wire.body)
        /\ wire.status < 400 => cres.err = PlainError("unexpected status")
        /\ ~cres.hasBody

C9_Witness ==
    /\ Finished /\ cop = "download" /\ GotResponse /\ wire.readOK
    /\ wire.status = 500
    /\ wire.body = MkBody(<<" ">>, TextCore("internal failure"), <<"\n">>)
    /\ cres.err.kind = "api"
    /\ cres.err.message = MkBody(<< >>, TextCore("internal failure"), << >>)
    /\ cres.err.status = "Internal Server Error"

\* C10: a finished Client.do has returned a body without an error exactly
\* when the transport delivered a response with a status in [200,300) whose
\* body could be read, and then the body is the response body as it came;
\* otherwise it has returned no body and an error.
C10_DoBodyXorError ==
    (Finished /\ cop = "do") =>
        LET success == /\ GotResponse /\ wire.readOK
                       /\ wire.status >= 200 /\ wire.status < 300
        IN /\ cres.returned
           /\ (cres.hasBody /\ cres.err = NoError) <=> success
           /\ success => cres.body = wire.body
           /\ ~success => (~cres.hasBody /\ cres.body = NilBody
                           /\ cres.err # NoError)

C10_Witness ==
    /\ Finished /\ cop = "do" /\ GotResponse /\ wire.status = 299
    /\ wire.body = MkBody(<<" ">>, TextCore("internal failure"), <<"\n">>)
    /\ cres.hasBody /\ cres.body = wire.body /\ cres.err = NoError

----------------------------------------------------------------------------
(* Properties of the client methods and the media download command,        *)
(* checked under SpecClient                                                *)

\* The method got as far as a request: the body could be marshalled and
\* http.NewRequestWithContext succeeded.
RequestBuilt == reqOK /\ (verb \in BodyVerbs => marshalOK)

\* C11: an invocation of Get, Post, Patch, Put, Delete, Upload or Download
\* performs at most one transport round trip, exactly one when the request
\* could be built and none otherwise, and whatever failed (the transport, a
\* non-2xx status, reading the body) the call is over after that round trip.
C11_AtMostOneRoundTrip ==
    /\ trips <= 1
    /\ cpc = "sent" => trips = 1
    /\ Finished => trips = (IF RequestBuilt THEN 1 ELSE 0)

C11_Witness ==
    /\ Finished
    /\ verb = "post"
    /\ trips = 1
    /\ GotResponse /\ Non2xx
    /\ cres.err # NoError

\* C12: when the transport yields no response the returned error is no
\* APIError and carries no status code; an APIError is returned only when a
\* response with a status outside [200,300) was received.
C12_NoResponseNoAPIError ==
    Finished =>
        /\ ~GotResponse => /\ cres.err.kind = "plain"
                           /\ cres.err.code = 0
                           /\ ~cres.hasBody
        /\ cres.err.kind = "api" => GotResponse /\ Non2xx

C12_Witness ==
    /\ Finished
    /\ trips = 1
    /\ wire = WireFail
    /\ cres.err = PlainError("executing request")

\* C13: Verbose does not influence the result: for the request that was
\* sent and the response that came back, the (body, error) pair returned is
\* the one the method returns with Verbose on and with Verbose off; without
\* Verbose nothing is logged, and with it the lines go to the log only.
C13_VerboseDoesNotChangeResult ==
    /\ ~verbose => logs = << >>
    /\ (Finished /\ trips = 1) =>
          \A v \in BOOLEAN :
             cres = (IF cop = "do" THEN DoOutcome(v, wire)
                     ELSE DownloadOutcome(v, wire)).res
    /\ (Finished /\ trips = 0) => logs = << >>

C13_Witness ==
    /\ Finished
    /\ verbose
    /\ GotResponse /\ Non2xx /\ HasEnvelope
    /\ cop = "do"
    /\ logs = <<"request", "response", "body">>
    /\ cres.err.kind = "api"

\* Client.Download handed an open stream to the media download command.
StreamHandedOut == cop = "download" /\ Finished /\ cres.err = NoError

\* C20: a download's response stream is released exactly once on every exit
\* path: Client.Download closes it itself when the status is outside
\* [200,300) and hands out the open stream only on success; the media
\* download command then closes it once, whether it ends normally, fails to
\* create the output file or fails while copying.
C20_StreamReleasedOnce ==
    cop = "download" =>
        /\ closed <= 1
        /\ (Finished /\ GotResponse /\ Non2xx) => closed = 1 /\ ~cres.hasBody
        /\ (Finished /\ ~GotResponse) => closed = 0 /\ ~cres.hasBody
        /\ (StreamHandedOut /\ mret = NoMediaRet) => closed = 0 /\ cres.hasBody
        /\ (StreamHandedOut /\ mret # NoMediaRet) => closed = 1

C20_Witness ==
    /\ StreamHandedOut
    /\ mret = MediaRet("err", "creating output file", "none")
    /\ closed = 1

----------------------------------------------------------------------------
(* The query parameter helpers and Client.buildURL *)

StrKeys == {"filter", "pageToken"}
IntKeys == {"pageSize"}
BoolKeys == {"showDeleted"}

\* Values handed to the helpers.
StrValues == {"", "t1", "a b"}
IntValues == {-1, 0, 1, 25}

\* Request paths, as the slashes and the rest.
Paths == {<<"spaces">>, <<"/", "spaces">>, <<"/", "/", "spaces", "/", "x">>}

GivenStr(v) == [NotGiven EXCEPT !.t = "str", !.s = v]
GivenInt(n) == [NotGiven EXCEPT !.t = "int", !.n = n]
GivenBool(b) == [NotGiven EXCEPT !.t = "bool", !.b = b]

\* url.Values.Set: the key's values are replaced by the one value.
Set(params, key, value) ==
    {p \in params : p[1] # key} \cup {<<key, value>>}

\* strconv.Itoa of a number >= 0.
Digits == <<"0", "1", "2", "3", "4", "5", "6", "7", "8", "9">>
RECURSIVE Itoa(_)
Itoa(n) ==
    IF n < 10 THEN Digits[n + 1]
    ELSE Itoa(n \div 10) \o Digits[(n % 10) + 1]

\* strconv.FormatBool.
FormatBool(b) == IF b THEN "true" ELSE "false"

AddQueryParam(params, key, value) ==
    IF value # "" THEN Set(params, key, value) ELSE params

AddQueryParamBool(params, key, value) ==
    IF value THEN Set(params, key, FormatBool(value)) ELSE params

\* A helper that lets 0 through.
AddQueryParamIntFromZero(params, key, value) ==
    IF value >= 0 THEN Set(params, key, Itoa(value)) ELSE params

AddQueryParamInt(params, key, value) ==
    IF value > 0 THEN Set(params, key, Itoa(value)) ELSE params

\* url.QueryEscape on the values in use: a space becomes "+".
QueryEscape(v) == IF v = "a b" THEN "a+b" ELSE v

\* url.Values.Encode: key=value pairs in key order, joined by "&".
KeysSorted == <<"filter", "pageSize", "pageToken", "showDeleted">>
RECURSIVE EncodeFrom(_, _)
EncodeFrom(params, i) ==
    IF i > Len(KeysSorted) THEN << >>
    ELSE LET key == KeysSorted[i]
             here == {p \in params : p[1] = key}
             rest == EncodeFrom(params, i + 1)
         IN IF here = {} THEN rest
            ELSE <<key, "=", QueryEscape((CHOOSE p \in here : TRUE)[2])>>
                 \o (IF rest = << >> THEN << >> ELSE <<"&">> \o rest)
Encode(params) == EncodeFrom(params, 1)

\* strings.TrimLeft(path, "/").
RECURSIVE TrimLeft(_)
TrimLeft(path) ==
    IF path # << >> /\ Head(path) = "/" THEN TrimLeft(Tail(path)) ELSE path

\* A "?" after the path whatever the parameters hold.
buildURLAlwaysQuery(path, params) ==
    <<"BaseURL", "/">> \o TrimLeft(path) \o <<"?">> \o Encode(params)

buildURL(path, params) ==
    <<"BaseURL", "/">> \o TrimLeft(path)
    \o (IF Cardinality({p[1] : p \in params}) > 0
        THEN <<"?">> \o Encode(params)
        ELSE << >>)

InitURL ==
    /\ ListOff
    /\ ClientOff
    /\ TruncOff
    /\ TableOff
    /\ MoreOff
    /\ UrlOff

\* A request is put together: each helper is called once per key, then
\* buildURL.
CallAddQueryParam ==
    \E k \in StrKeys, v \in StrValues :
        /\ ~qurl.built
        /\ qgiven[k] = NotGiven
        /\ qgiven' = [qgiven EXCEPT ![k] = GivenStr(v)]
        /\ qparams' = AddQueryParam(qparams, k, v)
        /\ UNCHANGED qurl
        /\ UNCHANGED <<listVars, clientVars, truncVars, tableVars, moreVars>>

CallAddQueryParamInt ==
    \E k \in IntKeys, n \in IntValues :
        /\ ~qurl.built
        /\ qgiven[k] = NotGiven
        /\ qgiven' = [qgiven EXCEPT ![k] = GivenInt(n)]
        /\ qparams' = AddQueryParamInt(qparams, k, n)
        /\ UNCHANGED qurl
        /\ UNCHANGED <<listVars, clientVars, truncVars, tableVars, moreVars>>

CallAddQueryParamBool ==
    \E k \in BoolKeys, b \in BOOLEAN :
        /\ ~qurl.built
        /\ qgiven[k] = NotGiven
        /\ qgiven' = [qgiven EXCEPT ![k] = GivenBool(b)]
        /\ qparams' = AddQueryParamBool(qparams, k, b)
        /\ UNCHANGED qurl
        /\ UNCHANGED <<listVars, clientVars, truncVars, tableVars, moreVars>>

CallBuildURL ==
    \E p \in Paths :
        /\ ~qurl.built
        /\ qurl' = [built |-> TRUE, text |-> buildURL(p, qparams)]
        /\ UNCHANGED <<qgiven, qparams>>
        /\ UNCHANGED <<listVars, clientVars, truncVars, tableVars, moreVars>>

NextURL ==
    \/ CallAddQueryParam
    \/ CallAddQueryParamInt
    \/ CallAddQueryParamBool
    \/ CallBuildURL

SpecURL == InitURL /\ [][NextURL]_vars

----------------------------------------------------------------------------
(* Properties of the query parameter helpers, checked under SpecURL *)

\* The key is in the parameters.
Present(key) == \E p \in qparams : p[1] = key

\* The value a helper was given counts as a value: a non-empty string, a
\* number above 0, true.
HasValue(g) ==
    \/ g.t = "str" /\ g.s # ""
    \/ g.t = "int" /\ g.n > 0
    \/ g.t = "bool" /\ g.b

InURL(tok) == \E i \in 1..Len(qurl.text) : qurl.text[i] = tok

\* C14: a query parameter whose value is absent never appears in a request:
\* a key is among the parameters exactly when its helper was given a
\* non-empty string, a number above 0 or true, no parameter has an empty
\* value, and the built URL has a "?" exactly when there are parameters and
\* names exactly the keys that are present.
C14_AbsentValuesNeverSent ==
    /\ \A k \in QueryKeys : Present(k) <=> HasValue(qgiven[k])
    /\ \A p \in qparams : p[2] # ""
    /\ qurl.built =>
          /\ InURL("?") <=> (qparams # {})
          /\ \A k \in QueryKeys : InURL(k) <=> Present(k)

C14_Witness ==
    /\ qurl.built
    /\ qgiven["filter"] = GivenStr("")
    /\ qgiven["pageSize"] = GivenInt(0)
    /\ qgiven["showDeleted"] = GivenBool(FALSE)
    /\ qgiven["pageToken"] = GivenStr("t1")
    /\ qurl.text = <<"BaseURL", "/", "spaces", "?", "pageToken", "=", "t1">>

----------------------------------------------------------------------------
(* output.Truncate *)

\* Strings are sequences of bytes.  "LF" is the newline byte, "CR" the
\* carriage return; "C9" "90" is the two-byte letter U+0250, whose upper
\* case U+2C6F is the three bytes "E2" "B1" "AF".
Rep(c, n) == [i \in 1..n |-> c]

Ellipsis == <<".", ".", ".">>

\* strings.ReplaceAll(s, old, new) for a one-byte old.
RECURSIVE ReplaceAll(_, _, _)
ReplaceAll(s, old, new) ==
    IF s = << >> THEN << >>
    ELSE (IF Head(s) = old THEN new ELSE <<Head(s)>>)
         \o ReplaceAll(Tail(s), old, new)

\* Only carriage returns are dealt with.
ReplaceLineBreaksKeepsNewline(s) == ReplaceAll(s, "CR", << >>)

\* The two replacements Truncate starts with.
ReplaceLineBreaks(s) ==
    ReplaceAll(ReplaceAll(s, "LF", <<" ">>), "CR", << >>)

\* An ellipsis appended to maxLen bytes.
TruncateAppendsEllipsis(s, maxLen) ==
    IF maxLen <= 0 THEN << >>
    ELSE LET r == ReplaceLineBreaks(s)
         IN IF Len(r) <= maxLen THEN r
            ELSE IF maxLen <= 3 THEN SubSeq(r, 1, maxLen)
            ELSE SubSeq(r, 1, maxLen) \o Ellipsis

Truncate(s, maxLen) ==
    IF maxLen <= 0 THEN << >>
    ELSE LET r == ReplaceLineBreaks(s)
         IN IF Len(r) <= maxLen THEN r
            ELSE IF maxLen <= 3 THEN SubSeq(r, 1, maxLen)
            ELSE SubSeq(r, 1, maxLen - 3) \o Ellipsis

TruncateInputs ==
    { << >>, <<"a">>, <<"a", "b", "c">>, <<"a", "b", "c", "d">>,
      <<"a", "b", "c", "d", "e", "f">>,
      <<"a", "LF", "b">>, <<"a", "CR", "b">>, <<"a", "CR", "LF", "b">>,
      <<"a", "b", "c", "CR">>, <<"LF", "LF", "a", "b", "c">>,
      <<"a", "b", "C9", "90", "c", "d">>,
      Rep("a", 50), Rep("a", 51), Rep("a", 50) \o <<"CR">> }

MaxLens == {-1, 0, 1, 2, 3, 4, 5, 50}

InitTruncate ==
    /\ ListOff
    /\ ClientOff
    /\ UrlOff
    /\ TableOff
    /\ MoreOff
    /\ ts \in TruncateInputs
    /\ tmax \in MaxLens
    /\ tout = NotTruncated

CallTruncate ==
    /\ ~tout.done
    /\ tout' = [done |-> TRUE, s |-> Truncate(ts, tmax)]
    /\ UNCHANGED <<ts, tmax>>
    /\ UNCHANGED <<listVars, clientVars, urlVars, tableVars, moreVars>>

NextTruncate == CallTruncate

SpecTruncate == InitTruncate /\ [][NextTruncate]_vars

----------------------------------------------------------------------------
(* Properties of Truncate, checked under SpecTruncate *)

NotCR(c) == c # "CR"

\* s with every newline turned into a space and every carriage return
\* taken out.
LineBreaksReplaced(s) ==
    SelectSeq([i \in 1..Len(s) |-> IF s[i] = "LF" THEN " " ELSE s[i]], NotCR)

----------------------------------------------------------------------------
(* output.Table *)

maxColumnWidth == 50
columnPadding == 2

\* A table gets at most this many rows.
MaxRows == 2

Max(S) == CHOOSE x \in S : \A y \in S : y <= x

\* strings.ToUpper on the bytes in use.
LowerLetters == <<"a", "b", "c", "d">>
UpperLetters == <<"A", "B", "C", "D">>
UpperByte(c) ==
    IF \E i \in 1..Len(LowerLetters) : LowerLetters[i] = c
    THEN UpperLetters[CHOOSE i \in 1..Len(LowerLetters) : LowerLetters[i] = c]
    ELSE c
RECURSIVE ToUpper(_)
ToUpper(s) ==
    IF s = << >> THEN << >>
    ELSE IF Len(s) >= 2 /\ s[1] = "C9" /\ s[2] = "90"
    THEN <<"E2", "B1", "AF">> \o ToUpper(SubSeq(s, 3, Len(s)))
    ELSE <<UpperByte(Head(s))>> \o ToUpper(Tail(s))

\* Widths without the cap.
WidthsUncapped(hs, rs) ==
    [i \in 1..Len(hs) |->
        Max({Len(hs[i])}
            \cup {Len(Truncate(rs[j][i], maxColumnWidth)) :
                    j \in {k \in 1..Len(rs) : i <= Len(rs[k])}})]

\* Render's widths: header length, then every truncated cell of the column,
\* then the cap.
Widths(hs, rs) ==
    [i \in 1..Len(hs) |->
        LET w == Max({Len(hs[i])}
                     \cup {Len(Truncate(rs[j][i], maxColumnWidth)) :
                             j \in {k \in 1..Len(rs) : i <= Len(rs[k])}})
        IN IF w > maxColumnWidth THEN maxColumnWidth ELSE w]

Pad(i) == IF i > 1 THEN Rep(" ", columnPadding) ELSE << >>

\* The header loop.
HeaderLine(hs, w) ==
    Concat([i \in 1..Len(hs) |->
              LET upper == ToUpper(hs[i])
              IN Pad(i) \o upper
                 \o (IF i < Len(hs) THEN Rep(" ", w[i] - Len(upper))
                     ELSE << >>)])

\* strings.Repeat panics on a negative count; the header loop is the only
\* place where the count can be negative.
HeaderPanics(hs, w) ==
    \E i \in 1..(Len(hs) - 1) : w[i] - Len(ToUpper(hs[i])) < 0

\* The dashes loop.
SeparatorLine(w) ==
    Concat([i \in 1..Len(w) |-> Pad(i) \o Rep("-", w[i])])

\* One pass of the rows loop.
RowLine(row, w) ==
    Concat([i \in 1..Len(w) |->
              LET val == IF i <= Len(row)
                         THEN Truncate(row[i], maxColumnWidth)
                         ELSE << >>
              IN Pad(i) \o val
                 \o (IF i < Len(w) THEN Rep(" ", w[i] - Len(val))
                     ELSE << >>)])

Rendered(t) == [done |-> TRUE, panic |-> FALSE, text |-> t]
Panicked == [done |-> TRUE, panic |-> TRUE, text |-> << >>]

\* Table.Render.
Render(hs, rs) ==
    IF Len(hs) = 0 THEN Rendered(<< >>)
    ELSE LET w == Widths(hs, rs)
         IN IF HeaderPanics(hs, w) THEN Panicked
            ELSE Rendered(HeaderLine(hs, w) \o <<"LF">>
                          \o SeparatorLine(w) \o <<"LF">>
                          \o Concat([j \in 1..Len(rs) |->
                                       RowLine(rs[j], w) \o <<"LF">>]))

\* Header lists handed to NewTable.
HeaderLists ==
    { << >>,
      << <<"a", "b">> >>,
      << <<"a", "b">>, <<"c">> >>,
      << <<"a">>, <<"b">>, <<"c", "d">> >>,
      << Rep("a", 51), <<"c">> >>,
      << <<"c">>, Rep("a", 51) >>,
      << <<"C9", "90">>, <<"c">> >> }

\* Cell values and rows handed to AddRow.
TableCells ==
    { << >>, <<"a", "b", "c">>, Rep("d", 52),
      <<"a", "LF", "b">>, <<"a", "CR", "b">> }

RowValues ==
    {<< >>}
    \cup {<<c>> : c \in TableCells}
    \cup {<<c, <<"b">>>> : c \in TableCells}
    \cup {<< <<"a">>, <<"b">>, <<"c">>, <<"d">> >>}

InitTable ==
    /\ ListOff
    /\ ClientOff
    /\ UrlOff
    /\ TruncOff
    /\ MoreOff
    /\ headers \in HeaderLists
    /\ rows = << >>
    /\ rendered = NotRendered

AddRow ==
    \E values \in RowValues :
        /\ ~rendered.done
        /\ Len(rows) < MaxRows
        /\ rows' = Append(rows, values)
        /\ UNCHANGED <<headers, rendered>>
        /\ UNCHANGED <<listVars, clientVars, urlVars, truncVars, moreVars>>

CallRender ==
    /\ ~rendered.done
    /\ rendered' = Render(headers, rows)
    /\ UNCHANGED <<headers, rows>>
    /\ UNCHANGED <<listVars, clientVars, urlVars, truncVars, moreVars>>

NextTable ==
    \/ AddRow
    \/ CallRender

SpecTable == InitTable /\ [][NextTable]_vars

----------------------------------------------------------------------------
(* Properties of Table.Render, checked under SpecTable *)

\* Render returned a table.
RenderedTable == rendered.done /\ ~rendered.panic /\ headers # << >>

\* The lines of a text, each ended by "LF".
RECURSIVE SplitLines(_)
SplitLines(s) ==
    IF \A i \in 1..Len(s) : s[i] # "LF" THEN (IF s = << >> THEN << >> ELSE <<s>>)
    ELSE LET k == CHOOSE i \in 1..Len(s) :
                     s[i] = "LF" /\ \A j \in 1..(i - 1) : s[j] # "LF"
         IN <<SubSeq(s, 1, k - 1)>> \o SplitLines(SubSeq(s, k + 1, Len(s)))

\* The width the claim gives column i.
ColumnWidth(i) ==
    LET m == Max({Len(headers[i])}
                 \cup {Len(Truncate(rows[j][i], 50)) :
                         j \in {k \in 1..Len(rows) : i <= Len(rows[k])}})
    IN IF m > 50 THEN 50 ELSE m

\* s left-aligned in a field of w bytes.
PadTo(s, w) == s \o [i \in 1..(w - Len(s)) |-> " "]

\* Fields laid out side by side with two spaces between them; the last
\* field is padded when padLast says so.
RECURSIVE Layout(_, _, _)
Layout(fields, i, padLast) ==
    IF i > Len(fields) THEN << >>
    ELSE (IF i > 1 THEN <<" ", " ">> ELSE << >>)
         \o (IF i < Len(fields) \/ padLast
             THEN PadTo(fields[i], ColumnWidth(i))
             ELSE fields[i])
         \o Layout(fields, i + 1, padLast)

CellOf(j, i) ==
    IF i <= Len(rows[j]) THEN Truncate(rows[j][i], 50) ELSE << >>

\* The lines of the table as the claim describes them.
TableLines(padLast) ==
    << Layout([i \in 1..Len(headers) |-> ToUpper(headers[i])], 1, padLast),
       Layout([i \in 1..Len(headers) |->
                 [k \in 1..ColumnWidth(i) |-> "-"]], 1, FALSE) >>
    \o [j \in 1..Len(rows) |->
          Layout([i \in 1..Len(headers) |-> CellOf(j, i)], 1, padLast)]

\* C15 as stated: each column's width is the maximum of the header length
\* and the length of each truncated cell of the column, capped at 50; the
\* separator has that many dashes per column; columns are two spaces apart;
\* headers are upper-cased; every cell, the last column's too, is
\* left-aligned and padded to the column width.
C15_EveryCellPadded ==
    RenderedTable => SplitLines(rendered.text) = TableLines(TRUE)

\* C15, amended: as above, but the last column is written without trailing
\* padding; only the columns before it are padded to their width.
C15_AllButLastColumnPadded ==
    RenderedTable => SplitLines(rendered.text) = TableLines(FALSE)

C15_Witness ==
    /\ RenderedTable
    /\ headers = << <<"a", "b">>, <<"c">> >>
    /\ rows = << <<Rep("d", 52), <<"b">>>>, << <<"a", "b", "c">> >> >>
    /\ SplitLines(rendered.text)[2] = Rep("-", 50) \o <<" ", " ", "-">>
    /\ SplitLines(rendered.text)[4] = <<"a", "b", "c">> \o Rep(" ", 49)

\* s with every newline and every carriage return turned into a space.
LineBreaksToSpaces(s) ==
    [i \in 1..Len(s) |-> IF s[i] \in {"LF", "CR"} THEN " " ELSE s[i]]

IsPrefix(p, s) == Len(p) <= Len(s) /\ SubSeq(s, 1, Len(p)) = p

\* Rows whose first cell fits the widest column as it is.
RowsWithShortFirstCell ==
    {j \in 1..Len(rows) : Len(rows[j]) >= 1 /\ Len(rows[j][1]) <= 50}

\* C17 as stated: every newline and every carriage return in a cell is
\* replaced by one space, so a rendered table has exactly 2 + rows lines and
\* a cell shows as its text with each of the two replaced by a space.
C17_LineBreaksBecomeSpaces ==
    RenderedTable =>
        /\ Len(SplitLines(rendered.text)) = 2 + Len(rows)
        /\ \A j \in RowsWithShortFirstCell :
              IsPrefix(LineBreaksToSpaces(rows[j][1]),
                       SplitLines(rendered.text)[2 + j])

\* C17, amended: every newline in a cell is replaced by one space and every
\* carriage return is removed, so a rendered table has exactly 2 + rows
\* lines, none of them holding a carriage return.
C17_NewlineToSpaceReturnRemoved ==
    RenderedTable =>
        /\ Len(SplitLines(rendered.text)) = 2 + Len(rows)
        /\ \A i \in 1..Len(rendered.text) : rendered.text[i] # "CR"
        /\ \A j \in RowsWithShortFirstCell :
              IsPrefix(LineBreaksReplaced(rows[j][1]),
                       SplitLines(rendered.text)[2 + j])

C17_Witness ==
    /\ RenderedTable
    /\ rows = << <<<<"a", "LF", "b">>, <<"b">>>>, <<<<"a", "CR", "b">>>> >>
    /\ headers = << <<"a", "b">>, <<"c">> >>
    /\ SplitLines(rendered.text)[3] = <<"a", " ", "b", " ", " ", "b">>
    /\ SplitLines(rendered.text)[4] = <<"a", "b", " ", " ", " ">>

----------------------------------------------------------------------------
(* Quiet mode and cancellation of the list commands, checked under Spec *)

\* Entries of out that are a command's data, not a message about it.
IsData(e) == e.k \in {"table", "json", "raw", "rawtext"}

\* C18: with quiet mode on, informational messages (PrintMessage,
\* PrintSuccess) produce no output, while the primary data of a command, the
\* table of a list command, is written exactly as with quiet mode off.
C18_QuietKeepsPrimaryData ==
    (pc = "done" /\ ret = OkRet /\ quiet) =>
        /\ \A i \in 1..Len(out) : IsData(out[i])
        /\ (cmd \in LoopCommands /\ ~(json /\ ~all)) =>
              out = SelectSeq(RenderList(cmd, json, FALSE, all, allItems,
                                         pageToken), IsData)

\* Calls that returned after the context was cancelled.
AnsweredAfterCancel ==
    {k \in 1..Len(resps) : cancelledAt > 0 /\ k >= cancelledAt}

\* C19: in fetch-all mode, once the invocation's context is cancelled no
\* further page call completes: every call that returns afterwards has
\* failed, and the command returns an error and writes nothing.
C19_CancelStopsAggregation ==
    all =>
        /\ \A k \in AnsweredAfterCancel : resps[k].kind = "fail"
        /\ (pc = "done" /\ cancelledAt > 0) => (ret.kind = "err" /\ out = << >>)

----------------------------------------------------------------------------
(* Error propagation, row skipping and the first page token of the list    *)
(* commands, checked under Spec                                            *)

\* A fetch-all run ended because its last call failed.
FetchAllCallFailed ==
    all /\ pc = "done" /\ resps # << >> /\ Last(resps).kind = "fail"

\* C21 as stated: when a page fetch fails in fetch-all mode the command
\* returns the error of the failing call itself, with nothing put around it.
C21_ErrorUnchanged ==
    FetchAllCallFailed => ret = ErrRet("", Last(resps).err)

\* C21, amended: the command returns an error that wraps the error of the
\* failing call under the prefix "listing ...": the cause is that error,
\* unchanged.
C21_ErrorWrappedOnce ==
    FetchAllCallFailed => ret = ErrRet("listing", Last(resps).err)

C21_Witness ==
    /\ FetchAllCallFailed
    /\ Len(resps) = 2
    /\ Last(resps).err = "api"
    /\ ret = ErrRet("listing", "api")

\* What a command in human mode has to show once its last call returned a
\* page: the accumulated items, or the one page of members list.
ItemsToShow ==
    IF cmd = "members" /\ ~all THEN Last(resps).items ELSE allItems

ReadyToShow ==
    /\ pc = "done"
    /\ ~json
    /\ ~quiet
    /\ resps # << >>
    /\ Last(resps).kind = "page"
    /\ ItemsToShow # << >>

\* C24: in table mode an item that fails to decode is skipped and rendering
\* goes on: the table has one row per item that decodes, in item order, and
\* the command succeeds.
C24_UndecodableItemSkipped ==
    ReadyToShow =>
        /\ ret = OkRet
        /\ \E i \in 1..Len(out) :
              /\ out[i].k = "table"
              /\ out[i].items = SelectSeq(ItemsToShow, Decodable)

\* C28: in fetch-all mode the first list call of every list command carries
\* the page token given with --page-token.
C28_FirstCallUsesFlagToken ==
    (all /\ sent # << >>) => sent[1] = flagToken

----------------------------------------------------------------------------
(* Completion of Table.Render, checked under SpecTable *)

\* C27: Table.Render completes for any headers and rows: every column's
\* width is at least the length of its upper-cased header and of each of its
\* rendered cells, so no padding count is negative, and Render returns.
C27_RenderCompletes ==
    rendered.done =>
        /\ ~rendered.panic
        /\ \A i \in 1..Len(headers) :
              /\ ColumnWidth(i) >= Len(ToUpper(headers[i]))
              /\ \A j \in 1..Len(rows) : ColumnWidth(i) >= Len(CellOf(j, i))

----------------------------------------------------------------------------
(* Decode failures of the media upload command, checked under SpecClient *)

\* The media upload command got a 2xx body that is not the JSON object it
\* decodes, and was not in JSON mode, where the body is printed undecoded.
UploadBodyUndecodable ==
    /\ verb = "upload"
    /\ mret # NoMediaRet
    /\ cres.err = NoError
    /\ cres.body.core.syntax # "json"
    /\ mret.printed # "json"

\* C22: a command that receives a 2xx response whose body it cannot decode
\* in the shape it expects returns a parsing failure, neither an APIError nor
\* a success, and prints no success message and no data.
C22_UndecodableBodyIsParsingFailure ==
    UploadBodyUndecodable => (mret.kind = "err" /\ mret.printed = "none")

----------------------------------------------------------------------------
(* spaces update and notifications update: the update mask *)

UpdateCommands == {"spaces update", "notifications update"}

\* The fields each command can set, in the order the handler looks at them.
SpacesFields == <<"displayName", "spaceDetails.description", "spaceHistoryState">>
NotificationsFields == <<"notificationSetting", "muteSetting">>
Fields(c) == IF c = "spaces update" THEN SpacesFields ELSE NotificationsFields

\* A string flag: whether it was given on the command line, and its value
\* ("" is the default, and can also be given).
FlagStates == {[changed |-> FALSE, value |-> ""],
               [changed |-> TRUE, value |-> ""],
               [changed |-> TRUE, value |-> "v"]}

\* --update-mask: a string, held as its pieces; << >> is the empty string.
MaskFlags == {<< >>, <<"displayName">>}

\* strings.Join(parts, ",").
RECURSIVE Join(_)
Join(parts) ==
    IF parts = << >> THEN << >>
    ELSE IF Len(parts) = 1 THEN <<parts[1]>>
    ELSE <<parts[1], ",">> \o Join(Tail(parts))

\* The field names a handler appends to maskParts: spaces update takes a flag
\* that was given (Changed), notifications update one whose value is not "".
Takes(c, f) == IF c = "spaces update" THEN f.changed ELSE f.value # ""

RECURSIVE maskPartsFrom(_, _, _)
maskPartsFrom(c, fl, i) ==
    IF i > Len(fl) THEN << >>
    ELSE (IF Takes(c, fl[i]) THEN <<Fields(c)[i]>> ELSE << >>)
         \o maskPartsFrom(c, fl, i + 1)
maskParts(c, fl) == maskPartsFrom(c, fl, 1)

\* The keys the handler puts in the request body (space / body map).
BodyFields(c, fl) == {Fields(c)[i] : i \in {j \in 1..Len(fl) : Takes(c, fl[j])}}

NoPatch == [issue |-> FALSE, mask |-> << >>, body |-> {}]
PatchWith(m, b) == [issue |-> TRUE, mask |-> m, body |-> b]

\* runSpacesUpdate up to the svc.Patch call: the mask is joined from maskParts
\* when --update-mask is empty and there are parts; an empty mask is an error.
runSpacesUpdateJoinsAlways(fl, um) ==
    PatchWith(IF um = << >> THEN Join(maskParts("spaces update", fl)) ELSE um,
              BodyFields("spaces update", fl))

runSpacesUpdate(fl, um) ==
    LET parts == maskParts("spaces update", fl)
        mask == IF um = << >> /\ Len(parts) > 0 THEN Join(parts) ELSE um
    IN  IF mask = << >> THEN NoPatch
        ELSE PatchWith(mask, BodyFields("spaces update", fl))

\* notifications update up to the svc.Patch call: an empty body is an error,
\* whatever --update-mask says; the mask is joined when --update-mask is empty.
runNotificationsUpdate(fl, um) ==
    LET parts == maskParts("notifications update", fl)
        body == BodyFields("notifications update", fl)
    IN  IF Cardinality(body) = 0 THEN NoPatch
        ELSE PatchWith(IF um = << >> THEN Join(parts) ELSE um, body)

UpdateRet(k, p) == [kind |-> k, prefix |-> p]

InitUpdate ==
    /\ ListOff
    /\ ClientOff
    /\ UrlOff
    /\ TruncOff
    /\ TableOff
    /\ DeleteOff
    /\ LoginOff
    /\ StoreOff
    /\ ucmd \in UpdateCommands
    /\ uflags \in [1..Len(Fields(ucmd)) -> FlagStates]
    /\ updateMask \in MaskFlags
    /\ upc = "start"
    /\ patches = << >>
    /\ uret = NoUpdateRet

\* The handler runs up to its svc.Patch call, or returns before it:
\* newAPIClient fails, or no mask (no body) could be put together.
RunUpdate ==
    /\ upc = "start"
    /\ \E clientOK \in BOOLEAN :
        LET p == IF ucmd = "spaces update"
                 THEN runSpacesUpdate(uflags, updateMask)
                 ELSE runNotificationsUpdate(uflags, updateMask)
        IN  IF ~clientOK
            THEN /\ upc' = "done"
                 /\ uret' = UpdateRet("err", "client")
                 /\ UNCHANGED patches
            ELSE IF ~p.issue
            THEN /\ upc' = "done"
                 /\ uret' = UpdateRet("err", "no fields")
                 /\ UNCHANGED patches
            ELSE /\ upc' = "called"
                 /\ patches' = Append(patches, [mask |-> p.mask, body |-> p.body])
                 /\ UNCHANGED uret
    /\ UNCHANGED <<ucmd, uflags, updateMask>>
    /\ UNCHANGED <<listVars, clientVars, urlVars, truncVars, tableVars,
                   deleteVars, loginVars, storeVars>>

\* svc.Patch returns and the handler finishes.
UpdateReturn ==
    /\ upc = "called"
    /\ \E ok \in BOOLEAN :
        uret' = IF ok THEN UpdateRet("ok", "")
                ELSE UpdateRet("err", IF ucmd = "spaces update"
                                      THEN "updating space"
                                      ELSE "updating notification settings")
    /\ upc' = "done"
    /\ UNCHANGED <<ucmd, uflags, updateMask, patches>>
    /\ UNCHANGED <<listVars, clientVars, urlVars, truncVars, tableVars,
                   deleteVars, loginVars, storeVars>>

NextUpdate == RunUpdate \/ UpdateReturn

SpecUpdate == InitUpdate /\ [][NextUpdate]_vars

----------------------------------------------------------------------------
(* C26 *)

\* The names of the fields of a request body, in declaration order, joined
\* with commas.
RECURSIVE NamesIn(_, _, _)
NamesIn(c, b, i) ==
    IF i > Len(Fields(c)) THEN << >>
    ELSE (IF Fields(c)[i] \in b THEN <<Fields(c)[i]>> ELSE << >>)
         \o NamesIn(c, b, i + 1)

\* C26: spaces update and notifications update never issue a PATCH request
\* with an empty update mask; when --update-mask is not given, the mask of the
\* request is the comma-joined names of exactly the fields the request body
\* supplies, in declaration order; and a command that returned the error of
\* having nothing to update issued no request.  (At most one PATCH is issued.)
C26_MaskNeverEmpty ==
    /\ Len(patches) <= 1
    /\ \A i \in 1..Len(patches) :
        /\ patches[i].mask # << >>
        /\ updateMask = << >> =>
            /\ patches[i].mask = Join(NamesIn(ucmd, patches[i].body, 1))
            /\ patches[i].body # {}
        /\ updateMask # << >> => patches[i].mask = updateMask
    /\ (upc = "done" /\ uret = UpdateRet("err", "no fields")) => patches = << >>
    /\ (upc # "start" /\ updateMask = << >>
            /\ \A i \in 1..Len(uflags) : ~uflags[i].changed)
        => (patches = << >> /\ uret.kind = "err")

\* spaces update finished after a PATCH whose mask was joined from the two
\* fields that were supplied.
C26_Witness ==
    /\ ucmd = "spaces update"
    /\ updateMask = << >>
    /\ Len(patches) = 1
    /\ patches[1].mask = <<"displayName", ",", "spaceHistoryState">>
    /\ upc = "done"

----------------------------------------------------------------------------
(* The delete / remove commands: the confirmation prompt *)

DeleteCommands == {"spaces delete", "messages delete", "members remove",
                   "emoji delete", "reactions remove"}

\* The commands that read the answer with fmt.Scanln; the others read a line
\* with bufio.Reader.ReadString.
ScanlnCommands == {"emoji delete", "reactions remove"}

\* What may be waiting on standard input, as bytes ("LF" line feed, "CR"
\* carriage return); an input that does not end in "LF" ends the stream.
StdinInputs ==
    {<< >>, <<"LF">>, <<"y", "LF">>, <<"Y", "LF">>, <<"y">>,
     <<"n", "LF">>, <<"y", "e", "s", "LF">>, <<"Y", "E", "S", "LF">>,
     <<"y", " ", "n", "o", "LF">>, <<" ", "y", " ", "LF">>,
     <<"y", "CR", "LF">>, <<"n", "o">>}

isSpace(c) == c \in {" ", "CR", "LF"}

\* bufio.Reader.ReadString('\n'): the bytes up to and including the first
\* line feed; at the end of the stream, the bytes read so far and io.EOF.
RECURSIVE ReadString(_)
ReadString(in) ==
    IF in = << >> THEN [data |-> << >>, err |-> "EOF"]
    ELSE IF Head(in) = "LF" THEN [data |-> <<"LF">>, err |-> "none"]
    ELSE LET r == ReadString(Tail(in))
         IN  [data |-> <<Head(in)>> \o r.data, err |-> r.err]

\* strings.TrimSpace on a byte string.
RECURSIVE TrimLeftSpace(_)
TrimLeftSpace(s) ==
    IF s # << >> /\ isSpace(Head(s)) THEN TrimLeftSpace(Tail(s)) ELSE s
RECURSIVE TrimRightSpace(_)
TrimRightSpace(s) ==
    IF s # << >> /\ isSpace(s[Len(s)])
    THEN TrimRightSpace(SubSeq(s, 1, Len(s) - 1)) ELSE s
TrimSpaceBytes(s) == TrimRightSpace(TrimLeftSpace(s))

\* strings.ToLower over the letters in use.
LowerByte(c) ==
    CASE c = "Y" -> "y" [] c = "E" -> "e" [] c = "S" -> "s" [] OTHER -> c
ToLower(s) == [i \in 1..Len(s) |-> LowerByte(s[i])]

\* fmt.Scanln(&answer).  SkipSpace: a line feed before any word is the error
\* "unexpected newline", the end of the stream the error "unexpected EOF",
\* and answer keeps its zero value.
RECURSIVE SkipSpace(_)
SkipSpace(in) ==
    IF in = << >> THEN [rest |-> << >>, err |-> "unexpected EOF"]
    ELSE IF Head(in) = "CR" /\ Len(in) > 1 /\ in[2] = "LF"
    THEN SkipSpace(Tail(in))
    ELSE IF Head(in) = "LF" THEN [rest |-> Tail(in), err |-> "unexpected newline"]
    ELSE IF isSpace(Head(in)) THEN SkipSpace(Tail(in))
    ELSE [rest |-> in, err |-> "none"]

\* token(true, notSpace): the bytes up to the next space.
RECURSIVE Token(_)
Token(in) ==
    IF in = << >> \/ isSpace(Head(in)) THEN << >>
    ELSE <<Head(in)>> \o Token(Tail(in))

\* The check after the last operand: only spaces may precede the line feed or
\* the end of the stream.
RECURSIVE ExpectNewline(_)
ExpectNewline(in) ==
    IF in = << >> \/ Head(in) = "LF" THEN "none"
    ELSE IF isSpace(Head(in)) THEN ExpectNewline(Tail(in))
    ELSE "expected newline"

Scanln(in) ==
    LET sk == SkipSpace(in)
        tok == Token(sk.rest)
    IN  IF sk.err # "none" THEN [text |-> << >>, err |-> sk.err]
        ELSE [text |-> tok,
              err |-> ExpectNewline(SubSeq(sk.rest, Len(tok) + 1, Len(sk.rest)))]

Yes == {<<"y">>, <<"Y">>}
YesLower == {<<"y">>, <<"y", "e", "s">>}

\* The prompt of each handler: the answer variable as compared, the error of
\* the read, whether the handler goes on to svc.Delete, and whether it
\* returns the read error.
Confirm(c, in) ==
    LET r == ReadString(in)
        s == Scanln(in)
    IN  CASE c = "spaces delete" ->
               LET a == TrimSpaceBytes(r.data)
               IN  [text |-> a, err |-> r.err, fails |-> FALSE,
                    proceed |-> a \in Yes]
          [] c = "messages delete" ->
               LET a == TrimSpaceBytes(ToLower(r.data))
               IN  [text |-> a, err |-> r.err, fails |-> FALSE,
                    proceed |-> a \in YesLower]
          [] c = "members remove" ->
               LET a == TrimSpaceBytes(r.data)
               IN  [text |-> a, err |-> r.err, fails |-> r.err # "none",
                    proceed |-> r.err = "none" /\ a \in Yes]
          [] OTHER ->
               [text |-> s.text, err |-> s.err, fails |-> FALSE,
                proceed |-> s.text \in Yes]

DeleteRet(k, p) == [kind |-> k, printed |-> p]

\* What each handler prints when the answer is not a yes.
CancelText(c) == IF c = "spaces delete" THEN "Delete cancelled." ELSE "Cancelled."

InitDelete ==
    /\ ListOff
    /\ ClientOff
    /\ UrlOff
    /\ TruncOff
    /\ TableOff
    /\ UpdateOff
    /\ LoginOff
    /\ StoreOff
    /\ dcmd \in DeleteCommands
    /\ force \in BOOLEAN
    /\ stdin \in StdinInputs
    /\ dpc = "start"
    /\ answer = NoAnswer
    /\ dreqs = << >>
    /\ dret = NoDeleteRet

\* The handler runs up to its svc.Delete call, or returns before it:
\* newAPIClient fails, the read of the answer fails (members remove), or the
\* answer is not a yes.
RunDelete ==
    /\ dpc = "start"
    /\ \E clientOK \in BOOLEAN :
        LET c == Confirm(dcmd, stdin)
        IN  IF ~clientOK
            THEN /\ dpc' = "done"
                 /\ dret' = DeleteRet("err", "none")
                 /\ UNCHANGED <<answer, dreqs>>
            ELSE IF force
            THEN /\ dpc' = "called"
                 /\ dreqs' = Append(dreqs, dcmd)
                 /\ UNCHANGED <<answer, dret>>
            ELSE /\ answer' = [text |-> c.text, err |-> c.err]
                 /\ IF c.fails
                    THEN /\ dpc' = "done"
                         /\ dret' = DeleteRet("err", "none")
                         /\ UNCHANGED dreqs
                    ELSE IF ~c.proceed
                    THEN /\ dpc' = "done"
                         /\ dret' = DeleteRet("nil", CancelText(dcmd))
                         /\ UNCHANGED dreqs
                    ELSE /\ dpc' = "called"
                         /\ dreqs' = Append(dreqs, dcmd)
                         /\ UNCHANGED dret
    /\ UNCHANGED <<dcmd, force, stdin>>
    /\ UNCHANGED <<listVars, clientVars, urlVars, truncVars, tableVars,
                   updateVars, loginVars, storeVars>>

\* svc.Delete returns and the handler finishes.
DeleteReturn ==
    /\ dpc = "called"
    /\ \E ok \in BOOLEAN, j \in BOOLEAN :
        dret' = IF ~ok THEN DeleteRet("err", "none")
                ELSE IF j THEN DeleteRet("nil", "raw")
                ELSE DeleteRet("nil", "success")
    /\ dpc' = "done"
    /\ UNCHANGED <<dcmd, force, stdin, answer, dreqs>>
    /\ UNCHANGED <<listVars, clientVars, urlVars, truncVars, tableVars,
                   updateVars, loginVars, storeVars>>

NextDelete == RunDelete \/ DeleteReturn

SpecDelete == InitDelete /\ [][NextDelete]_vars

----------------------------------------------------------------------------
(* C25 *)

\* The line the user typed, without the white space around it.
TypedLine == TrimSpaceBytes(ReadString(stdin).data)

\* An affirmative answer: the read succeeded and the line typed is a yes
\* ("y" or "Y"; for messages delete also "yes", in any case).
Affirmative ==
    /\ answer.err = "none"
    /\ IF dcmd = "messages delete" THEN ToLower(TypedLine) \in YesLower
       ELSE TypedLine \in Yes

\* C25: for every delete / remove command, a DELETE request is issued only if
\* --force is set or the user answered the prompt affirmatively; on any other
\* answer, an empty answer or a failed read, no request is issued.
C25_DeleteOnlyWhenConfirmed ==
    dreqs # << >> => (force \/ Affirmative)

----------------------------------------------------------------------------
(* The token store: SaveToken, LoadToken, DeleteToken, TokenExists *)

\* An oauth2.Token: its exported fields, and raw, the unexported field that
\* carries the extra values of the token response (nil when there are none).
\* Expiry is an instant ("zero" is the zero time).
StoreTokens ==
    [AccessToken : {"a1", "a2"}, TokenType : {"", "Bearer"},
     RefreshToken : {"", "r1"}, Expiry : {"zero", "t1"},
     raw : {"nil", "extra"}]

\* json.MarshalIndent(token, "", "  "): the exported fields under their JSON
\* names, token_type and refresh_token left out when empty (omitempty), raw
\* not written.
MarshalWithoutRefreshToken(t) ==
    [kind |-> "json",
     members |-> <<<<"access_token", t.AccessToken>>>>
                 \o (IF t.TokenType # "" THEN <<<<"token_type", t.TokenType>>>>
                     ELSE << >>)
                 \o <<<<"expiry", t.Expiry>>>>]

Marshal(t) ==
    [kind |-> "json",
     members |-> <<<<"access_token", t.AccessToken>>>>
                 \o (IF t.TokenType # "" THEN <<<<"token_type", t.TokenType>>>>
                     ELSE << >>)
                 \o (IF t.RefreshToken # ""
                     THEN <<<<"refresh_token", t.RefreshToken>>>> ELSE << >>)
                 \o <<<<"expiry", t.Expiry>>>>]

\* The value of a member of a JSON object, or the zero value of the field.
Member(ms, k, zero) ==
    IF \E i \in 1..Len(ms) : ms[i][1] = k
    THEN ms[CHOOSE i \in 1..Len(ms) : ms[i][1] = k][2]
    ELSE zero

\* json.Unmarshal(data, &token): an error on anything but a JSON document;
\* fields without a member keep their zero value, and raw stays nil.
UnmarshalToken(d) ==
    IF d.kind # "json" THEN [err |-> "parsing token file", token |-> ZeroToken]
    ELSE [err |-> "none",
          token |-> [AccessToken |-> Member(d.members, "access_token", ""),
                     TokenType |-> Member(d.members, "token_type", ""),
                     RefreshToken |-> Member(d.members, "refresh_token", ""),
                     Expiry |-> Member(d.members, "expiry", "zero"),
                     raw |-> "nil"]]

Garbage == [kind |-> "garbage", members |-> << >>]
FileWith(d) == [exists |-> TRUE, data |-> d]

\* LoadToken(path) on a store.
LoadToken(f) ==
    IF ~f.exists THEN [err |-> "reading token file", token |-> ZeroToken]
    ELSE UnmarshalToken(f.data)

\* TokenExists(path) on a store.
TokenExists(f) == f.exists

StoreRet(o, e, t, x) ==
    [op |-> o, err |-> e, token |-> t, exists |-> x, before |-> file]

\* What the file system does to os.WriteFile: it writes the file, it fails to
\* open it, or it fails after the file was opened and truncated.
WriteOutcomes == {"ok", "open fails", "write fails"}

InitStore ==
    /\ ListOff
    /\ ClientOff
    /\ UrlOff
    /\ TruncOff
    /\ TableOff
    /\ DeleteOff
    /\ UpdateOff
    /\ LoginOff
    /\ file \in {Absent, FileWith(Garbage)}
               \cup {FileWith(Marshal(t)) : t \in StoreTokens}
    /\ lastSaved = NothingSaved
    /\ sret = NoStoreRet

SaveToken ==
    /\ \E t \in StoreTokens, mkdirOK \in BOOLEAN, w \in WriteOutcomes :
        IF ~mkdirOK
        THEN /\ sret' = StoreRet("save", "creating token directory", t, FALSE)
             /\ UNCHANGED <<file, lastSaved>>
        ELSE IF w = "open fails"
        THEN /\ sret' = StoreRet("save", "writing token file", t, FALSE)
             /\ UNCHANGED <<file, lastSaved>>
        ELSE IF w = "write fails"
        THEN /\ sret' = StoreRet("save", "writing token file", t, FALSE)
             /\ file' = FileWith(NoData)
             /\ lastSaved' = NothingSaved
        ELSE /\ sret' = StoreRet("save", "none", t, FALSE)
             /\ file' = FileWith(Marshal(t))
             /\ lastSaved' = [has |-> TRUE, token |-> t]
    /\ UNCHANGED <<listVars, clientVars, urlVars, truncVars, tableVars,
                   deleteVars, updateVars, loginVars>>

CallLoadToken ==
    /\ sret' = StoreRet("load", LoadToken(file).err, LoadToken(file).token, FALSE)
    /\ UNCHANGED <<file, lastSaved>>
    /\ UNCHANGED <<listVars, clientVars, urlVars, truncVars, tableVars,
                   deleteVars, updateVars, loginVars>>

\* os.Remove fails when there is no file, and may fail when there is one.
DeleteToken ==
    /\ \E removeOK \in BOOLEAN :
        IF file.exists /\ removeOK
        THEN /\ sret' = StoreRet("delete", "none", ZeroToken, FALSE)
             /\ file' = Absent
             /\ lastSaved' = NothingSaved
        ELSE /\ sret' = StoreRet("delete", "removing token file", ZeroToken, FALSE)
             /\ UNCHANGED <<file, lastSaved>>
    /\ UNCHANGED <<listVars, clientVars, urlVars, truncVars, tableVars,
                   deleteVars, updateVars, loginVars>>

CallTokenExists ==
    /\ sret' = StoreRet("exists", "none", ZeroToken, TokenExists(file))
    /\ UNCHANGED <<file, lastSaved>>
    /\ UNCHANGED <<listVars, clientVars, urlVars, truncVars, tableVars,
                   deleteVars, updateVars, loginVars>>

NextStore == SaveToken \/ CallLoadToken \/ DeleteToken \/ CallTokenExists

SpecStore == InitStore /\ [][NextStore]_vars

----------------------------------------------------------------------------
(* C30 *)

\* Two tokens agree in the fields that are written to the file.
SameFields(a, b) ==
    /\ a.AccessToken = b.AccessToken
    /\ a.TokenType = b.TokenType
    /\ a.RefreshToken = b.RefreshToken
    /\ a.Expiry = b.Expiry

\* After a successful DeleteToken the token is gone, and DeleteToken and
\* LoadToken on a path with no token fail and leave the store as it was.
AfterDelete ==
    (sret.op = "delete" /\ sret.err = "none")
        => (~TokenExists(file) /\ LoadToken(file).err # "none")

OnNoToken ==
    (~sret.before.exists /\ sret.op \in {"delete", "load"})
        => (sret.err # "none" /\ file = sret.before)

\* While the file is as the last successful SaveToken wrote it, TokenExists
\* is true and LoadToken succeeds, also when they are called.
AfterSave(eq(_, _)) ==
    lastSaved.has =>
        /\ TokenExists(file)
        /\ LoadToken(file).err = "none"
        /\ eq(LoadToken(file).token, lastSaved.token)
        /\ sret.op = "exists" => sret.exists
        /\ sret.op = "load" => (sret.err = "none" /\ eq(sret.token, lastSaved.token))

Identical(a, b) == a = b

\* C30 as stated: after a successful SaveToken, TokenExists is true and
\* LoadToken returns a token equal to the last one saved; after a successful
\* DeleteToken, TokenExists is false and LoadToken returns an error;
\* DeleteToken and LoadToken on a path with no token return an error and
\* leave the store unchanged.
C30_LoadReturnsSavedToken ==
    AfterSave(Identical) /\ AfterDelete /\ OnNoToken

\* C30, amended: as above, where the token LoadToken returns equals the last
\* one saved in its access token, token type, refresh token and expiry; the
\* extra values a token carries outside these fields are not kept.
C30_LoadReturnsSavedFields ==
    AfterSave(SameFields) /\ AfterDelete /\ OnNoToken

\* A token with a refresh token and extra values was saved over another one
\* and then loaded.
C30_Witness ==
    /\ lastSaved.has
    /\ lastSaved.token.RefreshToken = "r1"
    /\ lastSaved.token.raw = "extra"
    /\ sret.op = "load"
    /\ sret.err = "none"
    /\ sret.token.RefreshToken = "r1"

----------------------------------------------------------------------------
(* auth.Login: the callback server, the result channel and the exchange *)

\* How many callback requests reach the listener at most.
MaxCallbacks == 3

\* make(chan callbackResult, 1)
ResultChCap == 1

\* The query of a callback request: its code and error parameters.
Queries == {[code |-> "c1", error |-> ""], [code |-> "c2", error |-> ""],
            [code |-> "", error |-> ""], [code |-> "", error |-> "access_denied"]}

NoHandler == [state |-> "none", code |-> "", error |-> ""]

\* The callbackResult the handler sends for a query.
ResultOf(q) ==
    IF q.code = ""
    THEN [code |-> "",
          err |-> IF q.error = ""
                  THEN "OAuth callback error: no authorization code received"
                  ELSE "OAuth callback error: access_denied"]
    ELSE [code |-> q.code, err |-> "none"]

LoginRet(k, e, t) == [kind |-> k, err |-> e, token |-> t]

InitLogin ==
    /\ ListOff
    /\ ClientOff
    /\ UrlOff
    /\ TruncOff
    /\ TableOff
    /\ DeleteOff
    /\ UpdateOff
    /\ StoreOff
    /\ lpc = "start"
    /\ listening = FALSE
    /\ handlers = [i \in 1..MaxCallbacks |-> NoHandler]
    /\ resultCh = << >>
    /\ res = NoResultYet
    /\ exchanges = << >>
    /\ lret = NoLoginRet

LoginRest == <<listVars, clientVars, urlVars, truncVars, tableVars,
               deleteVars, updateVars, storeVars>>

\* net.Listen, then the server goroutine and the browser; Login returns at
\* once when the port cannot be bound.
Listen ==
    /\ lpc = "start"
    /\ \E ok \in BOOLEAN :
        IF ok
        THEN /\ lpc' = "waiting"
             /\ listening' = TRUE
             /\ UNCHANGED lret
        ELSE /\ lpc' = "returned"
             /\ lret' = LoginRet("err", "starting local HTTP server", "")
             /\ UNCHANGED listening
    /\ UNCHANGED <<handlers, resultCh, res, exchanges>>
    /\ UNCHANGED LoginRest

\* A request reaches the listener and the server starts its handler.
CallbackArrives ==
    /\ listening
    /\ \E i \in 1..MaxCallbacks, q \in Queries :
        /\ handlers[i].state = "none"
        /\ \A j \in 1..(i - 1) : handlers[j].state # "none"
        /\ handlers' = [handlers EXCEPT
                            ![i] = [state |-> "running", code |-> q.code,
                                    error |-> q.error]]
    /\ UNCHANGED <<lpc, listening, resultCh, res, exchanges, lret>>
    /\ UNCHANGED LoginRest

\* The handler writes its page and sends its result: the send goes through
\* when the channel has room, and the handler returns.
HandlerSend(i) ==
    /\ handlers[i].state = "running"
    /\ Len(resultCh) < ResultChCap
    /\ resultCh' = Append(resultCh, ResultOf(handlers[i]))
    /\ handlers' = [handlers EXCEPT ![i].state = "done"]
    /\ UNCHANGED <<lpc, listening, res, exchanges, lret>>
    /\ UNCHANGED LoginRest

\* res := <-resultCh
ReceiveWithoutWaiting ==
    /\ lpc = "waiting"
    /\ res' = IF resultCh = << >> THEN [code |-> "c1", err |-> "none"]
              ELSE Head(resultCh)
    /\ resultCh' = IF resultCh = << >> THEN << >> ELSE Tail(resultCh)
    /\ lpc' = "shutdown"
    /\ UNCHANGED <<listening, handlers, exchanges, lret>>
    /\ UNCHANGED LoginRest

Receive ==
    /\ lpc = "waiting"
    /\ resultCh # << >>
    /\ res' = Head(resultCh)
    /\ resultCh' = Tail(resultCh)
    /\ lpc' = "shutdown"
    /\ UNCHANGED <<listening, handlers, exchanges, lret>>
    /\ UNCHANGED LoginRest

\* server.Shutdown(context.Background()) closes the listener ...
ShutdownBegin ==
    /\ lpc = "shutdown"
    /\ listening' = FALSE
    /\ lpc' = "draining"
    /\ UNCHANGED <<handlers, resultCh, res, exchanges, lret>>
    /\ UNCHANGED LoginRest

\* ... and returns when no connection is serving a request any more; its
\* context has no deadline.  Login then returns the callback's error, or goes
\* on to the exchange.
ShutdownEnd ==
    /\ lpc = "draining"
    /\ \A i \in 1..MaxCallbacks : handlers[i].state # "running"
    /\ IF res.err # "none"
       THEN /\ lpc' = "returned"
            /\ lret' = LoginRet("err", res.err, "")
       ELSE /\ lpc' = "exchange"
            /\ UNCHANGED lret
    /\ UNCHANGED <<listening, handlers, resultCh, res, exchanges>>
    /\ UNCHANGED LoginRest

\* cfg.Exchange(context.Background(), res.code)
Exchange ==
    /\ lpc = "exchange"
    /\ exchanges' = Append(exchanges, res.code)
    /\ \E ok \in BOOLEAN :
        lret' = IF ok THEN LoginRet("ok", "", "token")
                ELSE LoginRet("err", "exchanging authorization code", "")
    /\ lpc' = "returned"
    /\ UNCHANGED <<listening, handlers, resultCh, res>>
    /\ UNCHANGED LoginRest

NextLogin ==
    \/ Listen
    \/ CallbackArrives
    \/ \E i \in 1..MaxCallbacks : HandlerSend(i)
    \/ Receive
    \/ ShutdownBegin
    \/ ShutdownEnd
    \/ Exchange

SpecLogin == InitLogin /\ [][NextLogin]_vars

\* The Go scheduler runs every goroutine that can take a step: the goroutine
\* in Login and each handler.  Whether requests arrive is up to the world.
SpecLoginFair ==
    /\ InitLogin /\ [][NextLogin]_vars
    /\ WF_vars(Listen)
    /\ WF_vars(Receive)
    /\ WF_vars(ShutdownBegin)
    /\ WF_vars(ShutdownEnd)
    /\ WF_vars(Exchange)
    /\ \A i \in 1..MaxCallbacks : WF_vars(HandlerSend(i))

----------------------------------------------------------------------------
(* C23 *)

Arrived == {i \in 1..MaxCallbacks : handlers[i].state # "none"}
Sent == {i \in 1..MaxCallbacks : handlers[i].state = "done"}

\* Login is past its receive from the result channel.
PastReceive ==
    \/ lpc \in {"shutdown", "draining", "exchange"}
    \/ lpc = "returned" /\ lret.err # "starting local HTTP server"

\* server.Shutdown was called.
ShutdownCalled ==
    \/ lpc \in {"draining", "exchange"}
    \/ lpc = "returned" /\ lret.err # "starting local HTTP server"

\* How many results Login took from the channel.
Consumed == Cardinality(Sent) - Len(resultCh)

\* C23: Login blocks until a callback request has arrived and consumes exactly
\* one callback result: the server is not shut down and no exchange is
\* attempted before a callback arrived; the code exchanged is the code of the
\* callback whose result was consumed; and when that callback carries no code
\* Login returns its error without attempting any exchange.
C23_OneCallbackConsumed ==
    /\ Consumed = (IF PastReceive THEN 1 ELSE 0)
    /\ (ShutdownCalled \/ exchanges # << >>) =>
            \E i \in Sent : res = ResultOf(handlers[i])
    /\ Len(exchanges) <= 1
    /\ exchanges # << >> =>
            /\ res.err = "none"
            /\ exchanges[1] = res.code
            /\ \E i \in Sent : handlers[i].code = exchanges[1]
    /\ (PastReceive /\ res.code = "" /\ lpc = "returned") =>
            /\ exchanges = << >>
            /\ lret = LoginRet("err", res.err, "")
    /\ (PastReceive /\ res.code = "") => exchanges = << >>

\* Login exchanged the code of one callback and returned, while a second
\* callback had arrived as well.
C23_Witness ==
    /\ lpc = "returned"
    /\ exchanges = <<"c2">>
    /\ Cardinality(Arrived) = 2
    /\ lret.kind = "ok"

\* Login returned the error of a callback that carried no code.
C23_WitnessNoCode ==
    /\ lpc = "returned"
    /\ res.code = ""
    /\ lret.err = "OAuth callback error: access_denied"

----------------------------------------------------------------------------
(* C29 *)

\* C29: once a first callback has arrived, Login eventually returns, for any
\* number of callback requests that reach the listener: no handler blocks
\* forever on its send, and the shutdown completes.
C29_LoginEventuallyReturns ==
    (Arrived # {}) ~> (lpc = "returned")

\* With at most two callback requests Login does return.
C29_ReturnsWithTwoCallbacks ==
    (Arrived # {} /\ [](Cardinality(Arrived) <= 2)) ~> (lpc = "returned")

====
